---- MODULE Spec2Model ----
(***************************************************************************)
(* Scheduling core of the university scheduling application:               *)
(*   - presentation controller (availability checker, add / update /      *)
(*     delete presentation, reschedule workflow),                          *)
(*   - timetable controller (timetable conflict validator).                *)
(* Every HTTP handler is one atomic action (sequential execution).  A      *)
(* handler is an operator from the store and the request to the new store  *)
(* and the response (res); the action applies it and keeps the store.      *)
(***************************************************************************)
EXTENDS Integers, Sequences, FiniteSets, TLC

VARIABLES
    presentations,  \* Presentation collection: _id -> document
    nextPresentation, \* number of _ids handed out to presentations so far
    requests,       \* RescheduleRequest collection: _id -> document
    nextRequest,    \* number of _ids handed out to reschedule requests so far
    timetables,     \* Timetable collection: _id -> document
    nextTimetable,  \* number of _ids handed out to timetables so far
    groups,         \* StudentGroup collection: _id -> document
    nextGroup,      \* number of _ids handed out to student groups so far
    issued,         \* history: the group_id numbers generateGroupId has returned
    calls           \* requests in flight: caller -> position of its handler

presentationVars == <<presentations, nextPresentation, requests, nextRequest>>
timetableVars == <<timetables, nextTimetable>>
groupVars == <<groups, nextGroup, issued>>
vars == <<presentations, nextPresentation, requests, nextRequest,
          timetables, nextTimetable, groups, nextGroup, issued, calls>>

-----------------------------------------------------------------------------
(* Bounds of the model *)

MaxTime == 3           \* times are the HH:MM strings t1 < t2 < ... < tMaxTime
MaxPresentations == 2  \* presentations ever created
MaxRequests == 1       \* reschedule requests ever created
MaxHour == 4           \* lecture times are the HH:MM strings h1 < ... < hMaxHour
MaxLectures == 3       \* lectures in one day of a submitted schedule
MaxTimetables == 2     \* timetables ever created
MaxGroups == 3         \* student groups ever created
MaxGroupStudents == 2  \* student ids in one student group request
MaxCallers == 2        \* requests handled at the same time

(* Values *)

NULL == "null"              \* undefined / null / missing field
BadObjectId == "bad"        \* a string that is no ObjectId
NoTime == 0                 \* a missing (falsy) time string
Times == 1..MaxTime         \* HH:MM strings, ordered as the strings are
Dates == {"d1", "d2"}       \* YYYY-MM-DD strings
Venues == {"v1", "v2"}      \* Venue _ids
Examiners == {"e1"}         \* Examiner _ids
Students == {"s1"}          \* Student _ids
Titles == {"t1"}

PresentationId(n) == "p" \o ToString(n)
RequestId(n) == "r" \o ToString(n)
PresentationIds == {PresentationId(n) : n \in 1..MaxPresentations}
RequestIds == {RequestId(n) : n \in 1..MaxRequests}
TimetableId(n) == "t" \o ToString(n)
TimetableIds == {TimetableId(n) : n \in 1..MaxTimetables}
GroupId(n) == "G" \o ToString(n)
GroupIds == {GroupId(n) : n \in 1..MaxGroups}

-----------------------------------------------------------------------------
(* Helper utilities *)

isValidObjectId(id) == id \notin {NULL, BadObjectId}

validateObjectIdArray(arr) == \A id \in arr : isValidObjectId(id)

(* The Mongo filter built at the top of isTimeSlotAvailable, evaluated on   *)
(* one stored presentation p.                                               *)
timeCondition(p, startTime, endTime) ==
    \/ p.startTime < endTime /\ p.endTime > startTime
    \/ p.startTime >= startTime /\ p.startTime < endTime
    \/ p.endTime > startTime /\ p.endTime <= endTime

(* safeDate: the date when it is a string, "" otherwise; every date of the  *)
(* model is a string.                                                       *)
safeDate(date) == date

(* A combined query instead of three independent probes: a presentation     *)
(* conflicts only when it clashes in every dimension at once.               *)
isTimeSlotAvailableCombined(store, date, startTime, endTime, examiners, venue, students) ==
    ~ \E id \in DOMAIN store :
        /\ store[id].date = date
        /\ timeCondition(store[id], startTime, endTime)
        /\ store[id].examiners \cap examiners # {}
        /\ store[id].venue = venue
        /\ store[id].students \cap students # {}

isTimeSlotAvailable(store, date, startTime, endTime, examiners, venue, students) ==
    LET overlappingExaminer ==
            \E id \in DOMAIN store :
                /\ store[id].date = safeDate(date)
                /\ timeCondition(store[id], startTime, endTime)
                /\ store[id].examiners \cap examiners # {}
        overlappingVenue ==
            \E id \in DOMAIN store :
                /\ store[id].date = date
                /\ timeCondition(store[id], startTime, endTime)
                /\ store[id].venue = venue
        overlappingStudent ==
            \E id \in DOMAIN store :
                /\ store[id].date = date
                /\ timeCondition(store[id], startTime, endTime)
                /\ store[id].students \cap students # {}
    IN  IF examiners # {} /\ overlappingExaminer THEN FALSE
        ELSE IF venue # NULL /\ overlappingVenue THEN FALSE
        ELSE IF students # {} /\ overlappingStudent THEN FALSE
        ELSE TRUE

(* The three probes of isTimeSlotAvailable, one query (one await) each *)

overlappingExaminer(store, date, startTime, endTime, examiners) ==
    \E id \in DOMAIN store :
        /\ store[id].date = safeDate(date)
        /\ timeCondition(store[id], startTime, endTime)
        /\ store[id].examiners \cap examiners # {}

overlappingVenue(store, date, startTime, endTime, venue) ==
    \E id \in DOMAIN store :
        /\ store[id].date = date
        /\ timeCondition(store[id], startTime, endTime)
        /\ store[id].venue = venue

overlappingStudent(store, date, startTime, endTime, students) ==
    \E id \in DOMAIN store :
        /\ store[id].date = date
        /\ timeCondition(store[id], startTime, endTime)
        /\ store[id].students \cap students # {}

Response(op, status, message) == [op |-> op, status |-> status, message |-> message]

-----------------------------------------------------------------------------
(* addPresentation *)

addPresentation(store, n, body) ==
    LET op == "addPresentation"
        reject(status, message) ==
            [presentations |-> store, created |-> 0, res |-> Response(op, status, message)]
    IN  IF \/ body.title = NULL \/ body.venue = NULL \/ body.date = NULL
           \/ body.startTime = NoTime \/ body.endTime = NoTime
        THEN reject(400, "All fields are required")
        ELSE IF ~validateObjectIdArray(body.students)
        THEN reject(400, "Invalid student IDs")
        ELSE IF ~validateObjectIdArray(body.examiners)
        THEN reject(400, "Invalid examiner IDs")
        ELSE IF ~isValidObjectId(body.venue)
        THEN reject(400, "Invalid venue ID")
        ELSE IF ~isTimeSlotAvailable(store, body.date, body.startTime, body.endTime,
                                     body.examiners, body.venue, body.students)
        THEN reject(400, "Selected time slot is not available")
        ELSE [presentations |->
                 [id \in DOMAIN store \cup {PresentationId(n + 1)} |->
                     IF id = PresentationId(n + 1)
                     THEN [title |-> body.title, date |-> body.date,
                           startTime |-> body.startTime, endTime |-> body.endTime,
                           venue |-> body.venue, examiners |-> body.examiners,
                           students |-> body.students]
                     ELSE store[id]],
              created |-> 1,
              res |-> Response(op, 201, "Presentation scheduled successfully")]

(* The write of addPresentation, as a step of its own: what the handler     *)
(* does once isTimeSlotAvailable has answered true.                         *)

\* a write that asks isTimeSlotAvailable again and refuses a taken slot
savePresentationIfFree(store, n, body) ==
    IF ~isTimeSlotAvailable(store, body.date, body.startTime, body.endTime,
                            body.examiners, body.venue, body.students)
    THEN [presentations |-> store, created |-> 0, status |-> 400]
    ELSE [presentations |->
             [id \in DOMAIN store \cup {PresentationId(n + 1)} |->
                 IF id = PresentationId(n + 1)
                 THEN [title |-> body.title, date |-> body.date,
                       startTime |-> body.startTime, endTime |-> body.endTime,
                       venue |-> body.venue, examiners |-> body.examiners,
                       students |-> body.students]
                 ELSE store[id]],
          created |-> 1, status |-> 201]

savePresentation(store, n, body) ==
    [presentations |->
        [id \in DOMAIN store \cup {PresentationId(n + 1)} |->
            IF id = PresentationId(n + 1)
            THEN [title |-> body.title, date |-> body.date,
                  startTime |-> body.startTime, endTime |-> body.endTime,
                  venue |-> body.venue, examiners |-> body.examiners,
                  students |-> body.students]
            ELSE store[id]],
     created |-> 1, status |-> 201]

-----------------------------------------------------------------------------
(* updatePresentation *)

updatePresentation(store, id, body) ==
    LET op == "updatePresentation"
        reject(status, message) ==
            [presentations |-> store, res |-> Response(op, status, message)]
        existingPresentation == store[id]
        isTimeChanged ==
            \/ existingPresentation.date # body.date
            \/ existingPresentation.startTime # body.startTime
            \/ existingPresentation.endTime # body.endTime
            \/ existingPresentation.venue # body.venue
        allowedUpdate ==
            [title |-> IF body.title # NULL THEN body.title ELSE existingPresentation.title,
             date |-> body.date,
             startTime |-> body.startTime,
             endTime |-> body.endTime,
             students |-> IF body.students # {} THEN body.students
                          ELSE existingPresentation.students,
             examiners |-> IF body.examiners # {} THEN body.examiners
                           ELSE existingPresentation.examiners,
             venue |-> body.venue]
    IN  IF ~isValidObjectId(id)
        THEN reject(400, "Invalid Presentation ID")
        ELSE IF \/ ~validateObjectIdArray(body.students)
                \/ ~validateObjectIdArray(body.examiners)
                \/ ~isValidObjectId(body.venue)
        THEN reject(400, "Invalid Student/Examiner/Venue IDs")
        ELSE IF id \notin DOMAIN store
        THEN reject(404, "Presentation not found")
        ELSE IF body.startTime = NoTime
        THEN reject(500, "Server error")   \* timeRange undefined: TypeError, caught
        ELSE IF isTimeChanged
                /\ ~isTimeSlotAvailable(store, body.date, body.startTime, body.endTime,
                                        body.examiners, body.venue, body.students)
        THEN reject(400, "Selected time slot is not available")
        ELSE [presentations |-> [store EXCEPT ![id] = allowedUpdate],
              res |-> Response(op, 200, "updated")]

(* deletePresentation *)

deletePresentation(store, id) ==
    LET op == "deletePresentation"
    IN  IF ~isValidObjectId(id)
        THEN [presentations |-> store, res |-> Response(op, 400, "Invalid Presentation ID")]
        ELSE IF id \notin DOMAIN store
        THEN [presentations |-> store, res |-> Response(op, 404, "Presentation not found")]
        ELSE [presentations |-> [i \in DOMAIN store \ {id} |-> store[i]],
              res |-> Response(op, 200, "Presentation deleted successfully")]

-----------------------------------------------------------------------------
(* Reschedule workflow *)

(* requestReschedule without the look-up of the presentation *)
requestRescheduleNoLookup(store, reqs, n, user, body) ==
    LET op == "requestReschedule"
        reject(status, message) ==
            [presentations |-> store, requests |-> reqs, created |-> 0,
             res |-> Response(op, status, message)]
    IN  IF user.id = NULL \/ user.role = NULL
        THEN reject(401, "Unauthorized request: User not found.")
        ELSE IF ~isValidObjectId(body.presentationId)
        THEN reject(400, "Invalid presentationId")
        ELSE IF \/ body.date = NULL \/ body.startTime = NoTime
                \/ body.endTime = NoTime \/ body.venue = NULL
        THEN reject(400, "Date, timeRange and venue are required.")
        ELSE IF ~isValidObjectId(body.venue)
        THEN reject(400, "Invalid venue ID")
        ELSE [presentations |-> store,
              requests |->
                 [id \in DOMAIN reqs \cup {RequestId(n + 1)} |->
                     IF id = RequestId(n + 1)
                     THEN [presentation |-> body.presentationId,
                           date |-> body.date,
                           startTime |-> body.startTime, endTime |-> body.endTime,
                           venue |-> body.venue,
                           status |-> "Pending"]
                     ELSE reqs[id]],
              created |-> 1,
              res |-> Response(op, 201, "Reschedule request submitted successfully")]

requestReschedule(store, reqs, n, user, body) ==
    LET op == "requestReschedule"
        reject(status, message) ==
            [presentations |-> store, requests |-> reqs, created |-> 0,
             res |-> Response(op, status, message)]
    IN  IF user.id = NULL \/ user.role = NULL
        THEN reject(401, "Unauthorized request: User not found.")
        ELSE IF ~isValidObjectId(body.presentationId)
        THEN reject(400, "Invalid presentationId")
        ELSE IF body.presentationId \notin DOMAIN store
        THEN reject(404, "Presentation not found")
        ELSE IF \/ body.date = NULL \/ body.startTime = NoTime
                \/ body.endTime = NoTime \/ body.venue = NULL
        THEN reject(400, "Date, timeRange and venue are required.")
        ELSE IF ~isValidObjectId(body.venue)
        THEN reject(400, "Invalid venue ID")
        ELSE [presentations |-> store,
              requests |->
                 [id \in DOMAIN reqs \cup {RequestId(n + 1)} |->
                     IF id = RequestId(n + 1)
                     THEN [presentation |-> body.presentationId,
                           date |-> body.date,
                           startTime |-> body.startTime, endTime |-> body.endTime,
                           venue |-> body.venue,
                           status |-> "Pending"]
                     ELSE reqs[id]],
              created |-> 1,
              res |-> Response(op, 201, "Reschedule request submitted successfully")]

(* approveOrRejectReschedule approving without asking isTimeSlotAvailable *)
approveWithoutCheck(store, reqs, requestId, action) ==
    LET op == "approveOrRejectReschedule"
        reject(status, message) ==
            [presentations |-> store, requests |-> reqs,
             res |-> Response(op, status, message)]
        request == reqs[requestId]
    IN  IF ~isValidObjectId(requestId)
        THEN reject(400, "Invalid requestId")
        ELSE IF requestId \notin DOMAIN reqs
        THEN reject(404, "Reschedule request not found")
        ELSE IF request.presentation \notin DOMAIN store
        THEN reject(404, "Presentation not found in request")
        ELSE IF action = "Reject"
        THEN [presentations |-> store,
              requests |-> [reqs EXCEPT ![requestId].status = "Rejected"],
              res |-> Response(op, 200, "Reschedule request rejected successfully")]
        ELSE [presentations |->
                 [store EXCEPT ![request.presentation] =
                     [@ EXCEPT !.date = request.date,
                               !.startTime = request.startTime,
                               !.endTime = request.endTime,
                               !.venue = request.venue]],
              requests |-> [reqs EXCEPT ![requestId].status = "Approved"],
              res |-> Response(op, 200,
                        "Reschedule request approved, presentation updated")]

(* approveOrRejectReschedule answering 400 on an unavailable slot without   *)
(* saving the Rejected status                                               *)
approveLeavesPending(store, reqs, requestId, action) ==
    LET op == "approveOrRejectReschedule"
        reject(status, message) ==
            [presentations |-> store, requests |-> reqs,
             res |-> Response(op, status, message)]
        request == reqs[requestId]
        presentation == store[request.presentation]
    IN  IF ~isValidObjectId(requestId)
        THEN reject(400, "Invalid requestId")
        ELSE IF requestId \notin DOMAIN reqs
        THEN reject(404, "Reschedule request not found")
        ELSE IF request.presentation \notin DOMAIN store
        THEN reject(404, "Presentation not found in request")
        ELSE IF action = "Reject"
        THEN [presentations |-> store,
              requests |-> [reqs EXCEPT ![requestId].status = "Rejected"],
              res |-> Response(op, 200, "Reschedule request rejected successfully")]
        ELSE IF ~isTimeSlotAvailable(store, request.date, request.startTime,
                                     request.endTime, presentation.examiners,
                                     request.venue, presentation.students)
        THEN reject(400, "Time slot is not available. Request automatically rejected.")
        ELSE [presentations |->
                 [store EXCEPT ![request.presentation] =
                     [@ EXCEPT !.date = request.date,
                               !.startTime = request.startTime,
                               !.endTime = request.endTime,
                               !.venue = request.venue]],
              requests |-> [reqs EXCEPT ![requestId].status = "Approved"],
              res |-> Response(op, 200,
                        "Reschedule request approved, presentation updated")]

approveOrRejectReschedule(store, reqs, requestId, action) ==
    LET op == "approveOrRejectReschedule"
        reject(status, message) ==
            [presentations |-> store, requests |-> reqs,
             res |-> Response(op, status, message)]
        request == reqs[requestId]
        presentation == store[request.presentation]
        isAvailable ==
            isTimeSlotAvailable(store, request.date, request.startTime, request.endTime,
                                presentation.examiners, request.venue,
                                presentation.students)
    IN  IF ~isValidObjectId(requestId)
        THEN reject(400, "Invalid requestId")
        ELSE IF requestId \notin DOMAIN reqs
        THEN reject(404, "Reschedule request not found")
        ELSE IF request.presentation \notin DOMAIN store   \* populate yields null
        THEN reject(404, "Presentation not found in request")
        ELSE IF action = "Reject"
        THEN [presentations |-> store,
              requests |-> [reqs EXCEPT ![requestId].status = "Rejected"],
              res |-> Response(op, 200, "Reschedule request rejected successfully")]
        ELSE IF request.date = NULL \/ request.startTime = NoTime \/ request.venue = NULL
        THEN reject(400, "Invalid requested slot")
        ELSE IF ~isValidObjectId(request.venue)
        THEN reject(400, "Invalid venue in requested slot")
        ELSE IF ~isAvailable
        THEN [presentations |-> store,
              requests |-> [reqs EXCEPT ![requestId].status = "Rejected"],
              res |-> Response(op, 400,
                        "Time slot is not available. Request automatically rejected.")]
        ELSE [presentations |->
                 [store EXCEPT ![request.presentation] =
                     [@ EXCEPT !.date = request.date,
                               !.startTime = request.startTime,
                               !.endTime = request.endTime,
                               !.venue = request.venue]],
              requests |-> [reqs EXCEPT ![requestId].status = "Approved"],
              res |-> Response(op, 200,
                        "Reschedule request approved, presentation updated")]

-----------------------------------------------------------------------------
(* Notifications.  mail is what the first sendEmail of a handler does:      *)
(* "none" when the handler has no address to write to, "sent" when the      *)
(* message is delivered, "failed" when the awaited sendEmail rejects.       *)

MailOutcomes == {"none", "sent", "failed"}

\* sendEmail(address, subject, body) -> success / failure
sendEmail(mail) == mail # "failed"

\* addPresentation: the emails are sent after save(), inside try / catch
addPresentationNotifying(store, n, body, mail) ==
    LET r == addPresentation(store, n, body)
        emailError == r.created = 1 /\ ~sendEmail(mail)
    IN  IF emailError
        THEN r      \* caught and logged, the handler goes on to its 201
        ELSE r

\* updatePresentation: the emails are sent after findByIdAndUpdate, inside
\* try / catch
updatePresentationNotifying(store, id, body, mail) ==
    LET r == updatePresentation(store, id, body)
        emailError == r.res.status = 200 /\ ~sendEmail(mail)
    IN  IF emailError
        THEN r      \* caught and logged, the handler goes on to its 200
        ELSE r

\* approveOrRejectReschedule: every sendEmail is awaited after the writes
\* and outside any try / catch of its own; the catch of the handler
\* answers 500
approveOrRejectRescheduleNotifying(store, reqs, requestId, action, mail) ==
    LET r == approveOrRejectReschedule(store, reqs, requestId, action)
        notifies ==
            r.res.message \in
                { "Reschedule request rejected successfully",
                  "Time slot is not available. Request automatically rejected.",
                  "Reschedule request approved, presentation updated" }
    IN  IF notifies /\ ~sendEmail(mail)
        THEN [r EXCEPT !.res = Response(r.res.op, 500, "Server error")]
        ELSE r

-----------------------------------------------------------------------------
(* Requests the clients send *)

PresentationBodies ==
    [title : Titles, date : Dates, startTime : Times, endTime : Times,
     venue : Venues, examiners : SUBSET Examiners, students : SUBSET Students]

aBody == CHOOSE b \in PresentationBodies : b.examiners # {} /\ b.students # {}

\* one request for every validation branch of addPresentation
MalformedBodies ==
    { [aBody EXCEPT !.title = NULL], [aBody EXCEPT !.venue = NULL],
      [aBody EXCEPT !.date = NULL], [aBody EXCEPT !.startTime = NoTime],
      [aBody EXCEPT !.endTime = NoTime], [aBody EXCEPT !.venue = BadObjectId],
      [aBody EXCEPT !.students = {BadObjectId}],
      [aBody EXCEPT !.examiners = {BadObjectId}] }

\* a well-formed ObjectId that is the _id of no Venue
UnknownVenue == "v9"

\* a request that names a venue that does not exist
UnresolvedBodies == {[aBody EXCEPT !.venue = UnknownVenue]}

AddBodies == PresentationBodies \cup MalformedBodies \cup UnresolvedBodies

\* one request for every validation branch of updatePresentation
MalformedUpdates ==
    { [aBody EXCEPT !.venue = NULL], [aBody EXCEPT !.venue = BadObjectId],
      [aBody EXCEPT !.students = {BadObjectId}],
      [aBody EXCEPT !.examiners = {BadObjectId}],
      [aBody EXCEPT !.startTime = NoTime, !.endTime = NoTime] }

UpdateBodies ==
    PresentationBodies \cup {[aBody EXCEPT !.title = NULL]} \cup MalformedUpdates

UpdateCalls ==
    (PresentationIds \X UpdateBodies) \cup {<<BadObjectId, aBody>>}

PresentationArgs == PresentationIds \cup {BadObjectId}

\* req.user: absent (no field set), complete, or without a role
Users ==
    { [id |-> NULL, role |-> NULL], [id |-> "u1", role |-> "student"],
      [id |-> "u1", role |-> NULL] }

RescheduleBodies ==
    [presentationId : PresentationIds, date : Dates, startTime : Times,
     endTime : Times, venue : Venues]

aReschedule == CHOOSE b \in RescheduleBodies : TRUE

\* one request for every validation branch of requestReschedule
MalformedReschedules ==
    { [aReschedule EXCEPT !.presentationId = BadObjectId] }
    \cup UNION { { [aReschedule EXCEPT !.presentationId = p, !.date = NULL],
                   [aReschedule EXCEPT !.presentationId = p, !.startTime = NoTime],
                   [aReschedule EXCEPT !.presentationId = p, !.endTime = NoTime],
                   [aReschedule EXCEPT !.presentationId = p, !.venue = NULL],
                   [aReschedule EXCEPT !.presentationId = p, !.venue = BadObjectId] }
                 : p \in PresentationIds }

RequestArgs == RequestIds \cup {BadObjectId}

Actions == {"Approve", "Reject", "Other"}

\* the callers whose requests are handled at the same time
Callers == 1..MaxCallers

\* a caller with no request in flight
Idle ==
    [op |-> "idle", pc |-> "idle", body |-> aBody, target |-> NULL,
     request |-> NULL, passed |-> FALSE, status |-> 0]

-----------------------------------------------------------------------------
(* The state machine of the presentation store *)

Init ==
    /\ presentations = << >>
    /\ nextPresentation = 0
    /\ requests = << >>
    /\ nextRequest = 0
    /\ timetables = << >>
    /\ nextTimetable = 0
    /\ groups = << >>
    /\ nextGroup = 0
    /\ issued = {}
    /\ calls = [i \in Callers |-> Idle]

AddPresentation ==
    \E body \in AddBodies :
        /\ nextPresentation < MaxPresentations
        /\ LET r == addPresentation(presentations, nextPresentation, body)
           IN  /\ presentations' = r.presentations
               /\ nextPresentation' = nextPresentation + r.created
        /\ UNCHANGED <<calls, requests, nextRequest, timetableVars, groupVars>>

UpdatePresentation ==
    \E call \in UpdateCalls :
        /\ presentations' = updatePresentation(presentations, call[1], call[2]).presentations
        /\ UNCHANGED <<calls, nextPresentation, requests, nextRequest, timetableVars, groupVars>>

DeletePresentation ==
    \E id \in PresentationArgs :
        /\ presentations' = deletePresentation(presentations, id).presentations
        /\ UNCHANGED <<calls, nextPresentation, requests, nextRequest, timetableVars, groupVars>>

Next ==
    \/ AddPresentation
    \/ UpdatePresentation
    \/ DeletePresentation

Spec == Init /\ [][Next]_vars

-----------------------------------------------------------------------------
(* The state machine of the reschedule workflow.  The presentations booked  *)
(* here and the slots asked for have start < end.                           *)

WorkflowBookings ==
    {b \in PresentationBodies : b.startTime < b.endTime}

WorkflowReschedules ==
    {b \in RescheduleBodies : b.startTime < b.endTime} \cup MalformedReschedules

BookPresentation ==
    \E body \in WorkflowBookings :
        /\ nextPresentation < MaxPresentations
        /\ LET r == addPresentation(presentations, nextPresentation, body)
           IN  /\ presentations' = r.presentations
               /\ nextPresentation' = nextPresentation + r.created
        /\ UNCHANGED <<calls, requests, nextRequest, timetableVars, groupVars>>

RequestReschedule ==
    \E user \in Users, body \in WorkflowReschedules :
        /\ nextRequest < MaxRequests
        /\ LET r == requestReschedule(presentations, requests, nextRequest, user, body)
           IN  /\ presentations' = r.presentations
               /\ requests' = r.requests
               /\ nextRequest' = nextRequest + r.created
        /\ UNCHANGED <<calls, nextPresentation, timetableVars, groupVars>>

ApproveOrRejectReschedule ==
    \E requestId \in RequestArgs, action \in Actions :
        /\ LET r == approveOrRejectReschedule(presentations, requests, requestId, action)
           IN  /\ presentations' = r.presentations
               /\ requests' = r.requests
        /\ UNCHANGED <<calls, nextPresentation, nextRequest, timetableVars, groupVars>>

CancelPresentation ==
    \E id \in PresentationIds :
        /\ presentations' = deletePresentation(presentations, id).presentations
        /\ UNCHANGED <<calls, nextPresentation, requests, nextRequest, timetableVars, groupVars>>

NextWorkflow ==
    \/ BookPresentation
    \/ RequestReschedule
    \/ ApproveOrRejectReschedule
    \/ CancelPresentation

SpecWorkflow == Init /\ [][NextWorkflow]_vars

-----------------------------------------------------------------------------
(* Timetable controller *)

DAYS == {"Monday", "Tuesday", "Wednesday", "Thursday", "Friday"}

\* the records the controller looks references up in
StudentGroups == {"g1", "g2"}   \* StudentGroup.group_id
Modules == {"m1"}               \* Module.module_code
Lecturers == {"l1"}             \* Examiner.examiner_id
Rooms == {"v1"}                 \* Venue.venue_id

\* sanitizeString drops every "$" and "." (and trims, in the timetable
\* controller); "g.1" and "ST.1" are the strings of the model that hold such a
\* character
sanitizeString(v) ==
    CASE v = "g.1" -> "g1"
      [] v = "ST.1" -> "ST1"
      [] OTHER -> v

sanitizeSchedule(schedule) ==
    [d \in DOMAIN schedule |->
        [day |-> sanitizeString(schedule[d].day),
         lectures |->
            [k \in DOMAIN schedule[d].lectures |->
                [start_time |-> schedule[d].lectures[k].start_time,
                 end_time |-> schedule[d].lectures[k].end_time,
                 module_code |-> sanitizeString(schedule[d].lectures[k].module_code),
                 lecturer_id |-> sanitizeString(schedule[d].lectures[k].lecturer_id),
                 venue_id |-> sanitizeString(schedule[d].lectures[k].venue_id)]]]]

\* timetableBodySchema / updateBodySchema: no validation error
bodyValid(body) ==
    /\ body.group_id # ""
    /\ Len(body.schedule) >= 1
    /\ \A d \in DOMAIN body.schedule :
          /\ body.schedule[d].day \in DAYS
          /\ Len(body.schedule[d].lectures) >= 1
          /\ \A k \in DOMAIN body.schedule[d].lectures :
                LET l == body.schedule[d].lectures[k]
                IN  /\ l.start_time # NoTime /\ l.end_time # NoTime
                    /\ l.module_code # "" /\ l.lecturer_id # "" /\ l.venue_id # ""

\* [...lectures].sort((a, b) => a.start_time.localeCompare(b.start_time)):
\* a stable sort by start time
RECURSIVE sortByStart(_)
sortByStart(lectures) ==
    IF Len(lectures) <= 1 THEN lectures
    ELSE LET n == Len(lectures)
             sorted == sortByStart(SubSeq(lectures, 1, n - 1))
             x == lectures[n]
             at == Cardinality({k \in 1..(n - 1) : sorted[k].start_time <= x.start_time})
         IN  SubSeq(sorted, 1, at) \o <<x>> \o SubSeq(sorted, at + 1, n - 1)

\* the $elemMatch of the conflict query on one stored lecture l
lectureMatches(l, lecture) ==
    /\ (l.venue_id = lecture.venue_id \/ l.lecturer_id = lecture.lecturer_id)
    /\ l.start_time < lecture.end_time
    /\ l.end_time > lecture.start_time

\* the stored timetable t matches the filter of the conflict query but for
\* the group and _id conditions: "schedule.day" and "schedule.lectures" are
\* matched independently of each other, each by any element of schedule
timetableMatches(t, day, lecture) ==
    /\ \E d \in DOMAIN t.schedule : t.schedule[d].day = day
    /\ \E d \in DOMAIN t.schedule : \E k \in DOMAIN t.schedule[d].lectures :
           lectureMatches(t.schedule[d].lectures[k], lecture)

\* Timetable.findOne of addTimetable finds a document
conflictingLecture(store, day, lecture, group_id) ==
    \E t \in DOMAIN store :
        /\ timetableMatches(store[t], day, lecture)
        /\ store[t].group_id # group_id

\* Timetable.findOne of updateTimetable finds a document
conflictingLectureOfOthers(store, day, lecture, group_id, id) ==
    \E t \in DOMAIN store :
        /\ timetableMatches(store[t], day, lecture)
        /\ store[t].group_id # group_id
        /\ t # id

\* the key addTimetable keeps in submissionConflicts (the source joins the
\* five strings with "-"; no string of the model holds a "-")
lectureKey(day, lecture) ==
    <<day, lecture.start_time, lecture.end_time, lecture.lecturer_id, lecture.venue_id>>

\* a variant of prevLectureOverlaps that compares the previous end with the
\* end of the lecture instead of its start
prevLectureOutlasts(dayLectures, i) ==
    i > 1 /\ dayLectures[i - 1].end_time > dayLectures[i].end_time

\* "Overlap within same group/day": the lecture sorted before lecture i ends
\* after lecture i starts
prevLectureOverlaps(dayLectures, i) ==
    i > 1 /\ dayLectures[i - 1].end_time > dayLectures[i].start_time

Verdict(status, message, queries) ==
    [status |-> status, message |-> message, queries |-> queries]

\* the loop of addTimetable over the days and each day's sorted lectures, from
\* lecture i of day d on; queries counts the conflict queries issued
RECURSIVE addTimetableLoop(_, _, _, _, _, _, _)
addTimetableLoop(store, group_id, schedule, d, i, submissionConflicts, queries) ==
    IF d > Len(schedule) THEN Verdict(201, "Timetable created successfully!", queries)
    ELSE LET day == schedule[d]
             dayLectures == sortByStart(day.lectures)
         IN  IF i > Len(dayLectures)
             THEN addTimetableLoop(store, group_id, schedule, d + 1, 1,
                                   submissionConflicts, queries)
             ELSE LET lecture == dayLectures[i]
                  IN  IF lectureKey(day.day, lecture) \in submissionConflicts
                      THEN Verdict(400, "Duplicate lecture detected in the submission!",
                                   queries)
                      ELSE IF lecture.module_code \notin Modules
                      THEN Verdict(400, "Invalid Module Code", queries)
                      ELSE IF lecture.lecturer_id \notin Lecturers
                      THEN Verdict(400, "Invalid Lecturer ID", queries)
                      ELSE IF lecture.venue_id \notin Rooms
                      THEN Verdict(400, "Invalid Venue ID", queries)
                      ELSE IF prevLectureOverlaps(dayLectures, i)
                      THEN Verdict(400, "Time conflict detected", queries)
                      ELSE IF conflictingLecture(store, day.day, lecture, group_id)
                      THEN Verdict(400, "Schedule conflict", queries + 1)
                      ELSE addTimetableLoop(store, group_id, schedule, d, i + 1,
                               submissionConflicts \cup {lectureKey(day.day, lecture)},
                               queries + 1)

\* a variant of addTimetable that saves the document before it has checked
\* the lectures
addTimetableSavesFirst(store, n, body) ==
    LET op == "addTimetable"
        reject(status, message, queries) ==
            [timetables |-> store, created |-> 0, queries |-> queries,
             res |-> Response(op, status, message)]
        group_id == sanitizeString(body.group_id)
        schedule == sanitizeSchedule(body.schedule)
        verdict == addTimetableLoop(store, group_id, schedule, 1, 1, {}, 0)
    IN  IF ~bodyValid(body)
        THEN reject(400, "Validation failed", 0)
        ELSE IF group_id \notin StudentGroups
        THEN reject(400, "Invalid Group ID. Group does not exist.", 0)
        ELSE [timetables |->
                 [id \in DOMAIN store \cup {TimetableId(n + 1)} |->
                     IF id = TimetableId(n + 1)
                     THEN [group_id |-> group_id, schedule |-> schedule]
                     ELSE store[id]],
              created |-> 1,
              queries |-> verdict.queries,
              res |-> Response(op, verdict.status, verdict.message)]

addTimetable(store, n, body) ==
    LET op == "addTimetable"
        reject(status, message, queries) ==
            [timetables |-> store, created |-> 0, queries |-> queries,
             res |-> Response(op, status, message)]
        group_id == sanitizeString(body.group_id)
        schedule == sanitizeSchedule(body.schedule)
        verdict == addTimetableLoop(store, group_id, schedule, 1, 1, {}, 0)
    IN  IF ~bodyValid(body)
        THEN reject(400, "Validation failed", 0)
        ELSE IF group_id \notin StudentGroups
        THEN reject(400, "Invalid Group ID. Group does not exist.", 0)
        ELSE IF verdict.status # 201
        THEN reject(verdict.status, verdict.message, verdict.queries)
        ELSE [timetables |->
                 [id \in DOMAIN store \cup {TimetableId(n + 1)} |->
                     IF id = TimetableId(n + 1)
                     THEN [group_id |-> group_id, schedule |-> schedule]
                     ELSE store[id]],
              created |-> 1,
              queries |-> verdict.queries,
              res |-> Response(op, 201, verdict.message)]

\* the loop of updateTimetable
RECURSIVE updateTimetableLoop(_, _, _, _, _, _, _)
updateTimetableLoop(store, id, group_id, schedule, d, i, queries) ==
    IF d > Len(schedule) THEN Verdict(200, "Timetable updated successfully!", queries)
    ELSE LET day == schedule[d]
             dayLectures == sortByStart(day.lectures)
         IN  IF i > Len(dayLectures)
             THEN updateTimetableLoop(store, id, group_id, schedule, d + 1, 1, queries)
             ELSE LET lecture == dayLectures[i]
                  IN  IF lecture.module_code \notin Modules
                      THEN Verdict(400, "Invalid Module Code", queries)
                      ELSE IF lecture.lecturer_id \notin Lecturers
                      THEN Verdict(400, "Invalid Lecturer ID", queries)
                      ELSE IF lecture.venue_id \notin Rooms
                      THEN Verdict(400, "Invalid Venue ID", queries)
                      ELSE IF prevLectureOverlaps(dayLectures, i)
                      THEN Verdict(400, "Time conflict detected", queries)
                      ELSE IF conflictingLectureOfOthers(store, day.day, lecture,
                                                         group_id, id)
                      THEN Verdict(400, "Schedule conflict", queries + 1)
                      ELSE updateTimetableLoop(store, id, group_id, schedule, d, i + 1,
                                               queries + 1)

updateTimetable(store, id, body) ==
    LET op == "updateTimetable"
        reject(status, message, queries) ==
            [timetables |-> store, queries |-> queries,
             res |-> Response(op, status, message)]
        group_id == sanitizeString(body.group_id)
        schedule == sanitizeSchedule(body.schedule)
        verdict == updateTimetableLoop(store, id, group_id, schedule, 1, 1, 0)
    IN  IF ~isValidObjectId(id)
        THEN reject(400, "Invalid Timetable ID", 0)
        ELSE IF ~bodyValid(body)
        THEN reject(400, "Validation failed", 0)
        ELSE IF group_id \notin StudentGroups
        THEN reject(400, "Invalid Group ID. Group does not exist.", 0)
        ELSE IF verdict.status # 200
        THEN reject(verdict.status, verdict.message, verdict.queries)
        ELSE IF id \notin DOMAIN store
        THEN reject(404, "Timetable not found!", verdict.queries)
        ELSE [timetables |->
                 [store EXCEPT ![id] = [group_id |-> group_id, schedule |-> schedule]],
              queries |-> verdict.queries,
              res |-> Response(op, 200, verdict.message)]

deleteTimetable(store, id) ==
    LET op == "deleteTimetable"
    IN  IF ~isValidObjectId(id)
        THEN [timetables |-> store, res |-> Response(op, 400, "Invalid Timetable ID")]
        ELSE IF id \notin DOMAIN store
        THEN [timetables |-> store, res |-> Response(op, 404, "Timetable not found")]
        ELSE [timetables |-> [t \in DOMAIN store \ {id} |-> store[t]],
              res |-> Response(op, 200, "Timetable deleted successfully")]

-----------------------------------------------------------------------------
(* getFreeTimesForLecturer *)

\* allTimeSlots: the nine hourly slots from 08:00 to 17:00.  The times of
\* the model are twenty minutes apart, h1 being 08:00, so that the k-th slot
\* runs from time 3k - 2 to time 3k + 1.
hourlySlots == {[startTime |-> 3 * k - 2, endTime |-> 3 * k + 1] : k \in 1..9}

\* the test of the filter: the slot starts or ends inside the busy range
slotBusy(slot, busy) ==
    \/ slot.startTime >= busy.startTime /\ slot.startTime < busy.endTime
    \/ slot.endTime > busy.startTime /\ slot.endTime <= busy.endTime

\* busySlots of the day named day, over the timetables found
busySlots(tts, found, day, lecturerId) ==
    UNION {UNION {{[startTime |-> tts[t].schedule[d].lectures[k].start_time,
                    endTime |-> tts[t].schedule[d].lectures[k].end_time]
                   : k \in {j \in DOMAIN tts[t].schedule[d].lectures :
                              tts[t].schedule[d].lectures[j].lecturer_id = lecturerId}}
                  : d \in {e \in DOMAIN tts[t].schedule : tts[t].schedule[e].day = day}}
           : t \in found}

getFreeTimesForLecturer(tts, lecturerId) ==
    LET op == "getFreeTimesForLecturer"
        safeLecturerId == sanitizeString(lecturerId)
        found ==
            {t \in DOMAIN tts :
                \E d \in DOMAIN tts[t].schedule :
                    \E k \in DOMAIN tts[t].schedule[d].lectures :
                        tts[t].schedule[d].lectures[k].lecturer_id = safeLecturerId}
    IN  IF found = {}
        THEN [freeTimes |-> [day \in DAYS |-> {}],
              res |-> Response(op, 404, "No timetable found for this lecturer.")]
        ELSE [freeTimes |->
                 [day \in DAYS |->
                     {slot \in hourlySlots :
                         ~ \E busy \in busySlots(tts, found, day, safeLecturerId) :
                               slotBusy(slot, busy)}],
              res |-> Response(op, 200, "freeTimes")]

-----------------------------------------------------------------------------
(* The state machine of the timetable store *)

Hours == 1..MaxHour

\* the lectures submitted: start before end, every reference resolves
SubmittedLectures ==
    {l \in [start_time : Hours, end_time : Hours, module_code : Modules,
            lecturer_id : Lecturers, venue_id : Rooms] : l.start_time < l.end_time}

aLecture == CHOOSE l \in SubmittedLectures : l.start_time = 1 /\ l.end_time = 2

DayLists == UNION {[1..n -> SubmittedLectures] : n \in 1..MaxLectures}

\* Monday with up to MaxLectures lectures, or Monday and Tuesday with one
\* lecture each
SubmittedSchedules ==
    {<<[day |-> "Monday", lectures |-> ls]>> : ls \in DayLists}
    \cup {<<[day |-> "Monday", lectures |-> <<a>>],
            [day |-> "Tuesday", lectures |-> <<aLecture>>]>> : a \in SubmittedLectures}

\* a lecture that ends when it starts (the schemas do not compare the times)
anInstant == [aLecture EXCEPT !.start_time = 2, !.end_time = 2]

\* the same lecture twice on one weekday: in two entries for Monday, and in
\* one entry as a lecture that ends when it starts
RepeatedLectureSchedules ==
    { <<[day |-> "Monday", lectures |-> <<aLecture>>],
        [day |-> "Monday", lectures |-> <<aLecture>>]>>,
      <<[day |-> "Monday", lectures |-> <<anInstant, anInstant>>]>> }

TimetableBodies ==
    [group_id : StudentGroups, schedule : SubmittedSchedules \cup RepeatedLectureSchedules]

aDay == [day |-> "Monday", lectures |-> <<aLecture>>]
aTimetable == [group_id |-> "g1", schedule |-> <<aDay>>]

\* one request for every validation branch of addTimetable and updateTimetable
MalformedTimetables ==
    { [aTimetable EXCEPT !.group_id = ""],
      [aTimetable EXCEPT !.group_id = "g.1"],
      [aTimetable EXCEPT !.group_id = "g9"],
      [aTimetable EXCEPT !.schedule = << >>],
      [aTimetable EXCEPT !.schedule = <<[aDay EXCEPT !.day = "Sunday"]>>],
      [aTimetable EXCEPT !.schedule = <<[aDay EXCEPT !.lectures = << >>]>>],
      [aTimetable EXCEPT !.schedule =
          <<[aDay EXCEPT !.lectures = <<[aLecture EXCEPT !.start_time = NoTime]>>]>>],
      [aTimetable EXCEPT !.schedule =
          <<[aDay EXCEPT !.lectures = <<[aLecture EXCEPT !.module_code = "m9"]>>]>>],
      [aTimetable EXCEPT !.schedule =
          <<[aDay EXCEPT !.lectures = <<[aLecture EXCEPT !.lecturer_id = "l9"]>>]>>],
      [aTimetable EXCEPT !.schedule =
          <<[aDay EXCEPT !.lectures = <<[aLecture EXCEPT !.venue_id = "v9"]>>]>>] }

TimetableCalls ==
    (TimetableIds \X (TimetableBodies \cup MalformedTimetables))
    \cup {<<BadObjectId, aTimetable>>}

AddTimetable ==
    \E body \in TimetableBodies \cup MalformedTimetables :
        /\ nextTimetable < MaxTimetables
        /\ LET r == addTimetable(timetables, nextTimetable, body)
           IN  /\ timetables' = r.timetables
               /\ nextTimetable' = nextTimetable + r.created
        /\ UNCHANGED <<calls, presentationVars, groupVars>>

UpdateTimetable ==
    \E call \in TimetableCalls :
        /\ timetables' = updateTimetable(timetables, call[1], call[2]).timetables
        /\ UNCHANGED <<calls, nextTimetable, presentationVars, groupVars>>

DeleteTimetable ==
    \E id \in TimetableIds \cup {BadObjectId} :
        /\ timetables' = deleteTimetable(timetables, id).timetables
        /\ UNCHANGED <<calls, nextTimetable, presentationVars, groupVars>>

NextTimetable ==
    \/ AddTimetable
    \/ UpdateTimetable
    \/ DeleteTimetable

SpecTimetable == Init /\ [][NextTimetable]_vars

-----------------------------------------------------------------------------
(* Student group controller *)

\* the Student collection, in the order find returns it
StudentDocs ==
    << [_id |-> "s1", student_id |-> "ST1", department |-> "SE"],
       [_id |-> "s2", student_id |-> "ST2", department |-> "SE"],
       [_id |-> "s3", student_id |-> "ST3", department |-> "IT"] >>

FirstGroupNumber == 1001

Range(seq) == {seq[k] : k \in DOMAIN seq}

sanitizeArrayOfStrings(arr) == [k \in DOMAIN arr |-> sanitizeString(arr[k])]

\* Joi.string().trim().min(2) on department
departmentValid(department) == department \notin {"", "X"}

\* addGroupSchema: no validation error
addGroupValid(body) ==
    /\ "department" \in body.given /\ departmentValid(body.department)
    /\ "students" \in body.given /\ Len(body.students) >= 1
    /\ \A k \in DOMAIN body.students : body.students[k] # ""

\* updateGroupSchema: no validation error
updateGroupValid(body) ==
    /\ "department" \in body.given => departmentValid(body.department)
    /\ "students" \in body.given =>
          /\ Len(body.students) >= 1
          /\ \A k \in DOMAIN body.students : body.students[k] # ""

\* Student.find({student_id: {$in: studentsInput}}), mapped to the _ids
RECURSIVE findStudents(_, _)
findStudents(studentsInput, k) ==
    IF k > Len(StudentDocs) THEN << >>
    ELSE (IF StudentDocs[k].student_id \in Range(studentsInput)
          THEN <<StudentDocs[k]._id>> ELSE << >>)
         \o findStudents(studentsInput, k + 1)

\* a variant of existingGroup that finds only groups holding all the students
existingGroupOfAll(store, students, id) ==
    \E g \in DOMAIN store \ {id} : Range(students) \subseteq Range(store[g].students)

\* StudentGroup.findOne({_id: {$ne: id}, students: {$in: students}}) finds a
\* group (id is NULL in addStudentGroup, which has no _id condition)
existingGroup(store, students, id) ==
    \E g \in DOMAIN store \ {id} : Range(store[g].students) \cap Range(students) # {}

\* generateGroupId: the number behind "GR"; the last group is the one with the
\* greatest group_id, which for the four-digit numbers of the model is the
\* greatest number
generateGroupId(store) ==
    IF DOMAIN store = {} THEN FirstGroupNumber
    ELSE (CHOOSE n \in {store[g].group_id : g \in DOMAIN store} :
             \A g \in DOMAIN store : store[g].group_id <= n) + 1

addStudentGroup(store, n, body) ==
    LET op == "addStudentGroup"
        reject(status, message) ==
            [groups |-> store, created |-> 0, res |-> Response(op, status, message)]
        studentsInput == sanitizeArrayOfStrings(body.students)
        studentDocs == findStudents(studentsInput, 1)
    IN  IF ~addGroupValid(body)
        THEN reject(400, "Validation failed")
        ELSE IF Len(studentDocs) # Len(studentsInput)
        THEN reject(400, "One or more student IDs are invalid")
        ELSE IF existingGroup(store, studentDocs, NULL)
        THEN reject(400, "One or more students are already assigned to another group")
        ELSE [groups |->
                 [g \in DOMAIN store \cup {GroupId(n + 1)} |->
                     IF g = GroupId(n + 1)
                     THEN [group_id |-> generateGroupId(store),
                           department |-> sanitizeString(body.department),
                           students |-> studentDocs]
                     ELSE store[g]],
              created |-> 1,
              res |-> Response(op, 201, "Student group created successfully")]

updateStudentGroup(store, id, body) ==
    LET op == "updateStudentGroup"
        reject(status, message) ==
            [groups |-> store, res |-> Response(op, status, message)]
        studentsInput == sanitizeArrayOfStrings(body.students)
        studentDocs == findStudents(studentsInput, 1)
    IN  IF ~isValidObjectId(id)
        THEN reject(400, "Invalid Group ID")
        ELSE IF ~updateGroupValid(body)
        THEN reject(400, "Validation failed")
        ELSE IF id \notin DOMAIN store
        THEN reject(404, "Student group not found")
        ELSE IF "students" \in body.given /\ Len(studentDocs) # Len(studentsInput)
        THEN reject(400, "One or more student IDs are invalid")
        ELSE IF "students" \in body.given /\ existingGroup(store, studentDocs, id)
        THEN reject(400, "One or more students are already assigned to another group")
        ELSE [groups |->
                 [store EXCEPT
                     ![id].students =
                         IF "students" \in body.given THEN studentDocs ELSE @,
                     ![id].department =
                         IF "department" \in body.given
                         THEN sanitizeString(body.department) ELSE @],
              res |-> Response(op, 200, "Student group updated successfully")]

deleteStudentGroup(store, id) ==
    LET op == "deleteStudentGroup"
    IN  IF ~isValidObjectId(id)
        THEN [groups |-> store, res |-> Response(op, 400, "Invalid Group ID")]
        ELSE IF id \notin DOMAIN store
        THEN [groups |-> store, res |-> Response(op, 404, "Student group not found")]
        ELSE [groups |-> [g \in DOMAIN store \ {id} |-> store[g]],
              res |-> Response(op, 200, "Student group deleted successfully")]

-----------------------------------------------------------------------------
(* Slot suggestion engine *)

\* the Examiner collection, in the order find returns it; examiner_id is the
\* code the timetables use as lecturer_id
ExaminerDocs ==
    << [_id |-> "e1", examiner_id |-> "l1", department |-> "SE"],
       [_id |-> "e2", examiner_id |-> "l2", department |-> "SE"],
       [_id |-> "e3", examiner_id |-> "l3", department |-> "SE"] >>

\* Venue.find(): the _ids of the Venue collection in order
allVenues == <<"v1", "v2">>

\* the calendar day k days from today, today being d1
DateOf(k) == "d" \o ToString(k + 1)

\* Array.from({length: 14}, ...): the 14 days from first days after today on
possibleDates(first) == [i \in 1..14 |-> DateOf(first + i - 1)]

\* the ladder "08:00", "08:30", ..., "16:30" in half hours, 08:00 being 1
allTimeSlots == [k \in 1..18 |-> k]

\* calculateTimeRange: the end wraps at midnight, 32 half hours after 08:00
calculateTimeRange(startTime, duration) ==
    [startTime |-> startTime,
     endTime |-> ((startTime + 15 + duration) % 48) - 15]

RECURSIVE SelectSeq2(_, _, _)
\* Array.filter, keeping the order
SelectSeq2(seq, keep, k) ==
    IF k > Len(seq) THEN << >>
    ELSE (IF seq[k] \in keep THEN <<seq[k]>> ELSE << >>) \o SelectSeq2(seq, keep, k + 1)

\* Timetable.findOne({"schedule.lectures.lecturer_id": id, "schedule.day":
\* {$exists: true}}): the first timetable that has a lecture of the lecturer
lecturerSchedule(tts, lecturer_id) ==
    LET hits == {n \in 1..MaxTimetables :
                    /\ TimetableId(n) \in DOMAIN tts
                    /\ \E d \in DOMAIN tts[TimetableId(n)].schedule :
                          \E k \in DOMAIN tts[TimetableId(n)].schedule[d].lectures :
                              tts[TimetableId(n)].schedule[d].lectures[k].lecturer_id
                                = lecturer_id}
    IN  IF hits = {} THEN NULL
        ELSE TimetableId(CHOOSE n \in hits : \A m \in hits : n <= m)

\* totalLectures of one candidate date: the query does not name the date
RECURSIVE totalLectures(_, _, _, _)
totalLectures(tts, date, lecturerIds, k) ==
    IF k > Len(lecturerIds) THEN 0
    ELSE (IF lecturerSchedule(tts, lecturerIds[k]) = NULL THEN 0
          ELSE Len(tts[lecturerSchedule(tts, lecturerIds[k])].schedule))
         + totalLectures(tts, date, lecturerIds, k + 1)

\* a variant of pickBestDate that also takes a later date of equal load
RECURSIVE pickLastBestDate(_, _, _, _, _, _)
pickLastBestDate(tts, dates, lecturerIds, i, bestDate, minLectures) ==
    IF i > Len(dates) THEN bestDate
    ELSE LET total == totalLectures(tts, dates[i], lecturerIds, 1)
         IN  IF bestDate = NULL \/ total <= minLectures
             THEN pickLastBestDate(tts, dates, lecturerIds, i + 1, dates[i], total)
             ELSE pickLastBestDate(tts, dates, lecturerIds, i + 1, bestDate, minLectures)

\* the loop over possibleDates from date i on; bestDate is NULL while
\* minLectures is Infinity
RECURSIVE pickBestDate(_, _, _, _, _, _)
pickBestDate(tts, dates, lecturerIds, i, bestDate, minLectures) ==
    IF i > Len(dates) THEN bestDate
    ELSE LET total == totalLectures(tts, dates[i], lecturerIds, 1)
         IN  IF bestDate = NULL \/ total < minLectures
             THEN pickBestDate(tts, dates, lecturerIds, i + 1, dates[i], total)
             ELSE pickBestDate(tts, dates, lecturerIds, i + 1, bestDate, minLectures)

\* Presentation.find({date}): the _ids in the order of the collection
existingPresentations(store, date) ==
    SelectSeq2([n \in 1..MaxPresentations |-> PresentationId(n)],
               {id \in DOMAIN store : store[id].date = date}, 1)

\* examinerVenueMap: every examiner of a presentation of the date, with the
\* venue of the last such presentation
examinerVenueMap(store, date) ==
    LET found == existingPresentations(store, date)
        busy == UNION {store[found[k]].examiners : k \in DOMAIN found}
    IN  [ex \in busy |->
            store[found[CHOOSE k \in DOMAIN found :
                           /\ ex \in store[found[k]].examiners
                           /\ \A j \in DOMAIN found :
                                 ex \in store[found[j]].examiners => j <= k]].venue]

\* venueUsed: the venues of the presentations of the date that have examiners
venueUsed(store, date) ==
    {store[id].venue : id \in {i \in DOMAIN store :
                                  store[i].date = date /\ store[i].examiners # {}}}

Suggestion(date, examiners, venue, timeRange) ==
    [status |-> 200, message |-> "", date |-> date, examiners |-> examiners,
     venue |-> venue, startTime |-> timeRange.startTime, endTime |-> timeRange.endTime]

NoSuggestion(status, message) ==
    [status |-> status, message |-> message, date |-> NULL, examiners |-> << >>,
     venue |-> NULL, startTime |-> NoTime, endTime |-> NoTime]

\* the examiners and the venue the loop body selects; they do not depend on
\* the time slot
selectExaminersAndVenue(store, date, departmentExaminers, numExaminers) ==
    LET map == examinerVenueMap(store, date)
        ids == [k \in DOMAIN departmentExaminers |-> departmentExaminers[k]._id]
        mapped == SelectSeq2(ids, DOMAIN map, 1)
        taken == IF Len(mapped) = 0 THEN 0
                 ELSE IF numExaminers <= 1 THEN 1
                 ELSE IF numExaminers < Len(mapped) THEN numExaminers ELSE Len(mapped)
        reused == SubSeq(mapped, 1, taken)
        reusedVenue == IF taken = 0 THEN NULL ELSE map[reused[taken]]
        newExaminers == SelectSeq2(ids, Range(ids) \ DOMAIN map, 1)
        unusedVenues == SelectSeq2(allVenues, Range(allVenues) \ venueUsed(store, date), 1)
    IN  IF Len(reused) < numExaminers /\ Len(newExaminers) >= numExaminers
        THEN [selectedExaminers |-> SubSeq(newExaminers, 1, numExaminers),
              selectedVenue |-> IF Len(unusedVenues) > 0 THEN unusedVenues[1]
                                ELSE reusedVenue]
        ELSE [selectedExaminers |-> reused, selectedVenue |-> reusedVenue]

\* the loop over allTimeSlots from slot k on
RECURSIVE suggestFromSlot(_, _, _, _, _)
suggestFromSlot(store, bestDate, departmentExaminers, body, k) ==
    IF k > Len(allTimeSlots)
    THEN NoSuggestion(400, "No suitable time slots available")
    ELSE LET tr == calculateTimeRange(allTimeSlots[k], body.duration)
             sel == selectExaminersAndVenue(store, bestDate, departmentExaminers,
                                            body.numExaminers)
         IN  IF ~isTimeSlotAvailable(store, bestDate, tr.startTime, tr.endTime,
                                     {}, NULL, body.studentIds)
             THEN suggestFromSlot(store, bestDate, departmentExaminers, body, k + 1)
             ELSE IF \/ sel.selectedVenue = NULL
                     \/ Len(sel.selectedExaminers) < body.numExaminers
             THEN suggestFromSlot(store, bestDate, departmentExaminers, body, k + 1)
             ELSE Suggestion(bestDate, sel.selectedExaminers,
                             IF sel.selectedVenue \in Range(allVenues)
                             THEN sel.selectedVenue ELSE NULL,
                             tr)

smartSuggestSlot(store, tts, body) ==
    LET students == SelectSeq2([k \in DOMAIN StudentDocs |-> StudentDocs[k]._id],
                               body.studentIds, 1)
        department ==
            (CHOOSE doc \in Range(StudentDocs) : doc._id = students[1]).department
        departmentExaminers ==
            SelectSeq2(ExaminerDocs,
                       {doc \in Range(ExaminerDocs) : doc.department = department}, 1)
        lecturerIds ==
            [k \in DOMAIN departmentExaminers |-> departmentExaminers[k].examiner_id]
        bestDate == pickBestDate(tts, possibleDates(0), lecturerIds, 1, NULL, 0)
    IN  IF body.studentIds = {}
        THEN NoSuggestion(400, "studentIds array is required")
        ELSE IF ~validateObjectIdArray(body.studentIds)
        THEN NoSuggestion(400, "Invalid student object IDs")
        ELSE IF Len(students) = 0
        THEN NoSuggestion(400, "No valid students found")
        ELSE IF Len(departmentExaminers) = 0
        THEN NoSuggestion(400, "No examiners found in this department")
        ELSE IF Len(allVenues) = 0
        THEN NoSuggestion(400, "No venues found")
        ELSE IF bestDate = NULL
        THEN NoSuggestion(400, "No suitable date found")
        ELSE suggestFromSlot(store, bestDate, departmentExaminers, body, 1)

\* smartSuggestSlotForReschedule up to its choice of the date: the date, or
\* NULL when the request is answered before a date is chosen
rescheduleBestDate(store, tts, presentationId) ==
    LET examinerDocs ==
            SelectSeq2(ExaminerDocs,
                       {doc \in Range(ExaminerDocs) :
                           doc._id \in store[presentationId].examiners}, 1)
        examinerIds == [k \in DOMAIN examinerDocs |-> examinerDocs[k]._id]
    IN  IF ~isValidObjectId(presentationId) THEN NULL
        ELSE IF presentationId \notin DOMAIN store THEN NULL
        ELSE pickBestDate(tts, possibleDates(1), examinerIds, 1, NULL, 0)

\* the requests to the engine
SuggestBodies ==
    [studentIds : {{"s1"}, {"s2"}, {"s1", "s2"}, {"s3"}, {"s8"}, {}, {BadObjectId}},
     numExaminers : 1..Len(ExaminerDocs), duration : {1, 2}]

-----------------------------------------------------------------------------
(* The state machine of the student group store *)

\* ST.1 is sanitized to ST1; ST9 is the id of no student
StudentCodes == {"ST1", "ST2", "ST3", "ST.1", "ST9"}

StudentLists == UNION {[1..n -> StudentCodes] : n \in 1..MaxGroupStudents}

GroupBodies ==
    [given : {{"department", "students"}}, department : {"SE"}, students : StudentLists]
    \cup [given : {{"students"}}, department : {""}, students : StudentLists]

aGroup == [given |-> {"department", "students"}, department |-> "SE",
           students |-> <<"ST1">>]

\* one request for every other branch of the two schemas
OtherGroupBodies ==
    { [aGroup EXCEPT !.given = {"department"}, !.students = << >>],
      [aGroup EXCEPT !.given = {"department"}, !.students = << >>, !.department = "IT"],
      [aGroup EXCEPT !.given = {}, !.students = << >>, !.department = ""],
      [aGroup EXCEPT !.department = "X"],
      [aGroup EXCEPT !.students = << >>],
      [aGroup EXCEPT !.students = <<"">>] }

GroupCalls ==
    (GroupIds \X (GroupBodies \cup OtherGroupBodies)) \cup {<<BadObjectId, aGroup>>}

AddStudentGroup ==
    \E body \in GroupBodies \cup OtherGroupBodies :
        /\ nextGroup < MaxGroups
        /\ LET r == addStudentGroup(groups, nextGroup, body)
           IN  /\ groups' = r.groups
               /\ nextGroup' = nextGroup + r.created
               /\ issued' = IF r.created = 1
                            THEN issued \cup {generateGroupId(groups)}
                            ELSE issued
        /\ UNCHANGED <<calls, presentationVars, timetableVars>>

UpdateStudentGroup ==
    \E call \in GroupCalls :
        /\ groups' = updateStudentGroup(groups, call[1], call[2]).groups
        /\ UNCHANGED <<calls, nextGroup, issued, presentationVars, timetableVars>>

DeleteStudentGroup ==
    \E id \in GroupIds \cup {BadObjectId} :
        /\ groups' = deleteStudentGroup(groups, id).groups
        /\ UNCHANGED <<calls, nextGroup, issued, presentationVars, timetableVars>>

NextGroups ==
    \/ AddStudentGroup
    \/ UpdateStudentGroup
    \/ DeleteStudentGroup

SpecGroups == Init /\ [][NextGroups]_vars

-----------------------------------------------------------------------------
(* The state machine of the three stores, one controller at work in each     *)
(* behaviour: the controllers write disjoint collections.  Presentations    *)
(* are booked on one date with start < end, timetables have one lecture a   *)
(* day.                                                                     *)

StoreBookings == {b \in WorkflowBookings : b.date = "d1"}

StoreTimetables ==
    {b \in TimetableBodies :
        \A d \in DOMAIN b.schedule : Len(b.schedule[d].lectures) = 1}

NoTimetableCall == nextTimetable = 0
NoGroupCall == nextGroup = 0
NoPresentationCall == nextPresentation = 0

SubmitPresentation ==
    \E body \in StoreBookings :
        /\ NoTimetableCall /\ NoGroupCall
        /\ nextPresentation < MaxPresentations
        /\ LET r == addPresentation(presentations, nextPresentation, body)
           IN  /\ presentations' = r.presentations
               /\ nextPresentation' = nextPresentation + r.created
        /\ UNCHANGED <<calls, requests, nextRequest, timetableVars, groupVars>>

RevisePresentation ==
    \E id \in PresentationIds, body \in StoreBookings :
        /\ NoTimetableCall /\ NoGroupCall
        /\ presentations' = updatePresentation(presentations, id, body).presentations
        /\ UNCHANGED <<calls, nextPresentation, requests, nextRequest, timetableVars, groupVars>>

RemovePresentation ==
    \E id \in PresentationIds :
        /\ NoTimetableCall /\ NoGroupCall
        /\ presentations' = deletePresentation(presentations, id).presentations
        /\ UNCHANGED <<calls, nextPresentation, requests, nextRequest, timetableVars, groupVars>>

SubmitTimetable ==
    \E body \in StoreTimetables :
        /\ NoPresentationCall /\ NoGroupCall
        /\ nextTimetable < MaxTimetables
        /\ LET r == addTimetable(timetables, nextTimetable, body)
           IN  /\ timetables' = r.timetables
               /\ nextTimetable' = nextTimetable + r.created
        /\ UNCHANGED <<calls, presentationVars, groupVars>>

ReviseTimetable ==
    \E id \in TimetableIds, body \in StoreTimetables :
        /\ NoPresentationCall /\ NoGroupCall
        /\ timetables' = updateTimetable(timetables, id, body).timetables
        /\ UNCHANGED <<calls, nextTimetable, presentationVars, groupVars>>

RemoveTimetable ==
    \E id \in TimetableIds :
        /\ NoPresentationCall /\ NoGroupCall
        /\ timetables' = deleteTimetable(timetables, id).timetables
        /\ UNCHANGED <<calls, nextTimetable, presentationVars, groupVars>>

SubmitStudentGroup ==
    \E body \in GroupBodies :
        /\ NoPresentationCall /\ NoTimetableCall
        /\ nextGroup < MaxGroups
        /\ LET r == addStudentGroup(groups, nextGroup, body)
           IN  /\ groups' = r.groups
               /\ nextGroup' = nextGroup + r.created
               /\ issued' = IF r.created = 1
                            THEN issued \cup {generateGroupId(groups)}
                            ELSE issued
        /\ UNCHANGED <<calls, presentationVars, timetableVars>>

ReviseStudentGroup ==
    \E id \in GroupIds, body \in GroupBodies \cup OtherGroupBodies :
        /\ NoPresentationCall /\ NoTimetableCall
        /\ groups' = updateStudentGroup(groups, id, body).groups
        /\ UNCHANGED <<calls, nextGroup, issued, presentationVars, timetableVars>>

RemoveStudentGroup ==
    \E id \in GroupIds :
        /\ NoPresentationCall /\ NoTimetableCall
        /\ groups' = deleteStudentGroup(groups, id).groups
        /\ UNCHANGED <<calls, nextGroup, issued, presentationVars, timetableVars>>

NextStores ==
    \/ SubmitPresentation
    \/ RevisePresentation
    \/ RemovePresentation
    \/ SubmitTimetable
    \/ ReviseTimetable
    \/ RemoveTimetable
    \/ SubmitStudentGroup
    \/ ReviseStudentGroup
    \/ RemoveStudentGroup

SpecStores == Init /\ [][NextStores]_vars

-----------------------------------------------------------------------------
(* The state machine of concurrent requests.  A handler runs up to its next *)
(* await in one step; the steps of the handlers in flight interleave.  A    *)
(* call holds its position (pc), the slot and the people it asks about      *)
(* (body), the presentation and the request it acts on, whether             *)
(* isTimeSlotAvailable has answered true (passed) and the status it         *)
(* answers with.                                                            *)

\* bookings and reschedules of one morning: one date, ranges from the first time
RaceBookings ==
    {b \in WorkflowBookings : b.date = "d1" /\ b.startTime = 1}
    \cup {[aBody EXCEPT !.venue = BadObjectId]}

RaceReschedules ==
    {b \in RescheduleBodies : b.date = "d1" /\ b.startTime = 1 /\ b.endTime > 1}

RaceActions == {"Approve", "Reject"}

addsInFlight ==
    Cardinality({j \in Callers : calls[j].op = "addPresentation" /\ calls[j].pc # "done"})

\* the call after a probe of isTimeSlotAvailable has found a presentation
refused(c) ==
    IF c.op = "addPresentation"
    THEN [c EXCEPT !.pc = "done", !.status = 400]
    ELSE [c EXCEPT !.pc = "saveRejected", !.status = 400]

\* addPresentation up to its first await: the checks of the body
ReceiveAddPresentation ==
    \E i \in Callers, body \in RaceBookings :
        /\ calls[i].op = "idle"
        /\ nextPresentation + addsInFlight < MaxPresentations
        /\ calls' = [calls EXCEPT ![i] =
               IF addPresentation(<< >>, 0, body).res.status = 400
               THEN [Idle EXCEPT !.op = "addPresentation", !.pc = "done",
                                 !.body = body, !.status = 400]
               ELSE [Idle EXCEPT !.op = "addPresentation", !.pc = "examiner",
                                 !.body = body]]
        /\ UNCHANGED <<presentationVars, timetableVars, groupVars>>

\* approveOrRejectReschedule up to the first probe of isTimeSlotAvailable
LoadRescheduleRequest ==
    \E i \in Callers, requestId \in RequestArgs, action \in RaceActions :
        /\ calls[i].op = "idle"
        /\ LET c == [Idle EXCEPT !.op = "approveOrRejectReschedule"]
               request == requests[requestId]
               presentation == presentations[request.presentation]
           IN  calls' = [calls EXCEPT ![i] =
                   IF ~isValidObjectId(requestId)
                   THEN [c EXCEPT !.pc = "done", !.status = 400]
                   ELSE IF requestId \notin DOMAIN requests
                   THEN [c EXCEPT !.pc = "done", !.status = 404]
                   ELSE IF request.presentation \notin DOMAIN presentations
                   THEN [c EXCEPT !.pc = "done", !.status = 404]
                   ELSE IF action = "Reject"
                   THEN [c EXCEPT !.pc = "saveRejected", !.status = 200,
                                  !.request = requestId,
                                  !.target = request.presentation]
                   ELSE IF \/ request.date = NULL \/ request.startTime = NoTime
                           \/ request.venue = NULL \/ ~isValidObjectId(request.venue)
                   THEN [c EXCEPT !.pc = "done", !.status = 400]
                   ELSE [c EXCEPT !.pc = "examiner",
                                  !.request = requestId,
                                  !.target = request.presentation,
                                  !.body = [title |-> presentation.title,
                                            date |-> request.date,
                                            startTime |-> request.startTime,
                                            endTime |-> request.endTime,
                                            venue |-> request.venue,
                                            examiners |-> presentation.examiners,
                                            students |-> presentation.students]]]
        /\ UNCHANGED <<presentationVars, timetableVars, groupVars>>

FindOverlappingExaminer ==
    \E i \in Callers :
        /\ calls[i].pc = "examiner"
        /\ LET c == calls[i]
               b == c.body
           IN  calls' = [calls EXCEPT ![i] =
                   IF /\ b.examiners # {}
                      /\ overlappingExaminer(presentations, b.date, b.startTime,
                                             b.endTime, b.examiners)
                   THEN refused(c)
                   ELSE [c EXCEPT !.pc = "venue"]]
        /\ UNCHANGED <<presentationVars, timetableVars, groupVars>>

FindOverlappingVenue ==
    \E i \in Callers :
        /\ calls[i].pc = "venue"
        /\ LET c == calls[i]
               b == c.body
           IN  calls' = [calls EXCEPT ![i] =
                   IF /\ b.venue # NULL
                      /\ overlappingVenue(presentations, b.date, b.startTime,
                                          b.endTime, b.venue)
                   THEN refused(c)
                   ELSE [c EXCEPT !.pc = "student"]]
        /\ UNCHANGED <<presentationVars, timetableVars, groupVars>>

FindOverlappingStudent ==
    \E i \in Callers :
        /\ calls[i].pc = "student"
        /\ LET c == calls[i]
               b == c.body
           IN  calls' = [calls EXCEPT ![i] =
                   IF /\ b.students # {}
                      /\ overlappingStudent(presentations, b.date, b.startTime,
                                            b.endTime, b.students)
                   THEN refused(c)
                   ELSE [c EXCEPT !.passed = TRUE,
                                  !.pc = IF c.op = "addPresentation"
                                         THEN "save" ELSE "update"]]
        /\ UNCHANGED <<presentationVars, timetableVars, groupVars>>

\* newPresentation.save() and the 201 of addPresentation
SavePresentation ==
    \E i \in Callers :
        /\ calls[i].pc = "save"
        /\ LET r == savePresentation(presentations, nextPresentation, calls[i].body)
           IN  /\ presentations' = r.presentations
               /\ nextPresentation' = nextPresentation + r.created
               /\ calls' = [calls EXCEPT ![i] =
                      [@ EXCEPT !.pc = "done", !.status = r.status,
                                !.target = IF r.created = 1
                                           THEN PresentationId(nextPresentation + 1)
                                           ELSE NULL]]
        /\ UNCHANGED <<requests, nextRequest, timetableVars, groupVars>>

\* Presentation.findByIdAndUpdate of the approve path
UpdateRescheduledPresentation ==
    \E i \in Callers :
        /\ calls[i].pc = "update"
        /\ LET c == calls[i]
           IN  /\ presentations' =
                      IF c.target \in DOMAIN presentations
                      THEN [presentations EXCEPT ![c.target] =
                               [@ EXCEPT !.date = c.body.date,
                                         !.startTime = c.body.startTime,
                                         !.endTime = c.body.endTime,
                                         !.venue = c.body.venue]]
                      ELSE presentations
               /\ calls' = [calls EXCEPT ![i] =
                      [c EXCEPT !.pc = "saveApproved", !.status = 200]]
        /\ UNCHANGED <<nextPresentation, requests, nextRequest, timetableVars, groupVars>>

\* request.save() with the status the handler has set
SaveRequestStatus ==
    \E i \in Callers :
        /\ calls[i].pc \in {"saveRejected", "saveApproved"}
        /\ requests' = [requests EXCEPT ![calls[i].request].status =
                           IF calls[i].pc = "saveApproved"
                           THEN "Approved" ELSE "Rejected"]
        /\ calls' = [calls EXCEPT ![i].pc = "done"]
        /\ UNCHANGED <<presentations, nextPresentation, nextRequest,
                       timetableVars, groupVars>>

\* the response has been sent; the caller may send its next request
Respond ==
    \E i \in Callers :
        /\ calls[i].pc = "done"
        /\ calls' = [calls EXCEPT ![i] = Idle]
        /\ UNCHANGED <<presentationVars, timetableVars, groupVars>>

\* requestReschedule, whose steps touch no presentation
FileRescheduleRequest ==
    \E body \in RaceReschedules :
        /\ nextRequest < MaxRequests
        /\ LET r == requestReschedule(presentations, requests, nextRequest,
                                      [id |-> "u1", role |-> "student"], body)
           IN  /\ requests' = r.requests
               /\ nextRequest' = nextRequest + r.created
        /\ UNCHANGED <<calls, presentations, nextPresentation, timetableVars, groupVars>>

NextRace ==
    \/ ReceiveAddPresentation
    \/ LoadRescheduleRequest
    \/ FindOverlappingExaminer
    \/ FindOverlappingVenue
    \/ FindOverlappingStudent
    \/ SavePresentation
    \/ UpdateRescheduledPresentation
    \/ SaveRequestStatus
    \/ Respond
    \/ FileRescheduleRequest

SpecRace == Init /\ [][NextRace]_vars

-----------------------------------------------------------------------------
(* Properties of the presentation store *)

\* half-open ranges [s1, e1) and [s2, e2) overlap
Overlap(s1, e1, s2, e2) == s1 < e2 /\ s2 < e1

\* the stored presentation b and the slot (date, startTime, endTime) collide in time
SameSlot(b, date, startTime, endTime) ==
    b.date = date /\ Overlap(b.startTime, b.endTime, startTime, endTime)

\* C1: no two stored presentations on the same date with overlapping time
\* ranges share a venue, an examiner or a student.
NoDoubleBooking ==
    \A a, b \in DOMAIN presentations :
        (a # b /\ SameSlot(presentations[a], presentations[b].date,
                           presentations[b].startTime, presentations[b].endTime))
        => /\ presentations[a].venue # presentations[b].venue
           /\ presentations[a].examiners \cap presentations[b].examiners = {}
           /\ presentations[a].students \cap presentations[b].students = {}

\* the candidate c shares an examiner, the venue or a student with the stored b
SharesResource(b, c) ==
    \/ b.examiners \cap c.examiners # {}
    \/ b.venue = c.venue
    \/ b.students \cap c.students # {}

\* C2: a candidate on the date of a stored presentation, overlapping it in
\* time and sharing an examiner, the venue or a student with it, is refused by
\* isTimeSlotAvailable, and addPresentation answers 400 and persists nothing.
ConflictingSlotRefused ==
    \A id \in DOMAIN presentations : \A c \in PresentationBodies :
        (SameSlot(presentations[id], c.date, c.startTime, c.endTime)
         /\ SharesResource(presentations[id], c))
        => /\ ~isTimeSlotAvailable(presentations, c.date, c.startTime, c.endTime,
                                   c.examiners, c.venue, c.students)
           /\ LET r == addPresentation(presentations, nextPresentation, c)
              IN  /\ r.res.status = 400
                  /\ r.presentations = presentations
                  /\ r.created = 0

\* a stored presentation and a candidate that partly overlap it and share the
\* venue and nothing else
VenueOnlyConflictSeen ==
    \E id \in DOMAIN presentations : \E c \in PresentationBodies :
        LET b == presentations[id]
        IN  /\ b.date = c.date /\ b.venue = c.venue
            /\ b.startTime < c.startTime /\ c.startTime < b.endTime
            /\ b.examiners # {} /\ c.examiners = {}
            /\ b.students # {} /\ c.students = {}
            /\ addPresentation(presentations, nextPresentation, c).res.status = 400

\* C3: a candidate whose only resource-sharing presentations on its date end
\* exactly at its start or start exactly at its end is available and accepted.
BoundaryAdjacentAccepted ==
    \A c \in PresentationBodies :
        LET sharing == {id \in DOMAIN presentations :
                           /\ presentations[id].date = c.date
                           /\ SharesResource(presentations[id], c)}
        IN  (/\ sharing # {}
             /\ \A id \in sharing : \/ presentations[id].endTime = c.startTime
                                    \/ presentations[id].startTime = c.endTime)
            => /\ isTimeSlotAvailable(presentations, c.date, c.startTime, c.endTime,
                                      c.examiners, c.venue, c.students)
               /\ addPresentation(presentations, nextPresentation, c).res.status = 201

-----------------------------------------------------------------------------
(* Properties of the reschedule workflow *)

Terminal == {"Approved", "Rejected"}

\* C4: once a request is Approved or Rejected, no call of
\* approveOrRejectReschedule changes its status or its presentation.
TerminalStatesFinal ==
    [][\A id \in DOMAIN requests :
          requests[id].status \in Terminal
          => /\ id \in DOMAIN requests'
             /\ requests'[id].status = requests[id].status
             /\ (requests[id].presentation \in
                     DOMAIN presentations \cap DOMAIN presentations'
                 => presentations'[requests[id].presentation]
                        = presentations[requests[id].presentation])]_vars

\* no other stored presentation collides with the slot for these resources
SlotFreeOfOthers(own, date, startTime, endTime, examiners, venue, students) ==
    \A id \in DOMAIN presentations \ {own} :
        SameSlot(presentations[id], date, startTime, endTime)
        => /\ presentations[id].examiners \cap examiners = {}
           /\ presentations[id].venue # venue
           /\ presentations[id].students \cap students = {}

\* C5: a request becomes Approved only in a step where isTimeSlotAvailable
\* reports the requested slot free for the presentation's examiners and
\* students and the requested venue; that step sets the presentation's date,
\* time range and venue to the requested slot and changes nothing else.
ApprovedOnlyWhenFree ==
    [][\A id \in DOMAIN requests :
          (/\ id \in DOMAIN requests'
           /\ requests[id].status # "Approved"
           /\ requests'[id].status = "Approved")
          => LET q == requests[id]
                 p == presentations[q.presentation]
             IN  /\ q.presentation \in DOMAIN presentations
                 /\ isTimeSlotAvailable(presentations, q.date, q.startTime, q.endTime,
                                        p.examiners, q.venue, p.students)
                 /\ SlotFreeOfOthers(q.presentation, q.date, q.startTime, q.endTime,
                                     p.examiners, q.venue, p.students)
                 /\ presentations' =
                        [presentations EXCEPT ![q.presentation] =
                            [title |-> p.title, examiners |-> p.examiners,
                             students |-> p.students, date |-> q.date,
                             startTime |-> q.startTime, endTime |-> q.endTime,
                             venue |-> q.venue]]]_vars

\* an Approved request whose presentation sits in the requested slot, next to
\* another presentation
ApprovedSeen ==
    \E id \in DOMAIN requests :
        LET q == requests[id]
        IN  /\ q.status = "Approved"
            /\ q.presentation \in DOMAIN presentations
            /\ presentations[q.presentation].date = q.date
            /\ presentations[q.presentation].startTime = q.startTime
            /\ presentations[q.presentation].endTime = q.endTime
            /\ presentations[q.presentation].venue = q.venue
            /\ DOMAIN presentations \ {q.presentation} # {}

\* another booking holds the requested slot of request id: same date,
\* overlapping time, and an examiner or a student of the request's
\* presentation, or the requested venue
SlotTaken(id) ==
    LET q == requests[id]
        p == presentations[q.presentation]
    IN  \E other \in DOMAIN presentations \ {q.presentation} :
            /\ SameSlot(presentations[other], q.date, q.startTime, q.endTime)
            /\ \/ presentations[other].examiners \cap p.examiners # {}
               \/ presentations[other].students \cap p.students # {}
               \/ presentations[other].venue = q.venue

AllRescheduleBodies == RescheduleBodies \cup MalformedReschedules

\* C7: requestReschedule stores a request only for an authenticated caller,
\* an existing presentation and a complete slot; the request it stores is
\* Pending; on 401, 400 and 404 it stores nothing; it never changes a
\* presentation.
RequestOnlyWhenValid ==
    \A user \in Users : \A body \in AllRescheduleBodies :
        LET r == requestReschedule(presentations, requests, nextRequest, user, body)
            new == RequestId(nextRequest + 1)
        IN  /\ r.presentations = presentations
            /\ r.created = 1
               => /\ user.id # NULL /\ user.role # NULL
                  /\ body.presentationId \in DOMAIN presentations
                  /\ body.date # NULL /\ body.startTime # NoTime
                  /\ body.endTime # NoTime /\ body.venue # NULL
                  /\ r.res.status = 201
                  /\ DOMAIN r.requests = DOMAIN requests \cup {new}
                  /\ r.requests[new].status = "Pending"
                  /\ \A id \in DOMAIN requests : r.requests[id] = requests[id]
            /\ r.res.status \in {400, 401, 404}
               => r.created = 0 /\ r.requests = requests
            /\ r.res.status \in {201, 400, 401, 404}

\* a Pending request for a stored presentation, while a request for a
\* presentation that does not exist is answered 404
PendingRequestSeen ==
    \E id \in DOMAIN requests :
        /\ requests[id].status = "Pending"
        /\ requests[id].presentation \in DOMAIN presentations
        /\ PresentationIds \ DOMAIN presentations # {}

\* C16: no stored presentation and no stored reschedule request names a
\* student, examiner or venue that is not an existing record, and
\* addPresentation refuses every request that names one.
ReferencesResolved ==
    /\ \A id \in DOMAIN presentations :
          /\ presentations[id].venue \in Venues
          /\ presentations[id].students \subseteq Students
          /\ presentations[id].examiners \subseteq Examiners
    /\ \A r \in DOMAIN requests : requests[r].venue \in Venues
    /\ \A body \in UnresolvedBodies :
          addPresentation(presentations, nextPresentation, body).created = 0

-----------------------------------------------------------------------------
(* Properties of the timetable store *)

LecturesOverlap(a, b) == a.start_time < b.end_time /\ b.start_time < a.end_time

\* C8: no two lectures stored in different timetables fall on the same weekday
\* with overlapping times and the same lecturer or the same venue, whatever
\* the groups of the two timetables.
NoLecturerOrVenueDoubleBooked ==
    \A t1 \in DOMAIN timetables : \A t2 \in DOMAIN timetables \ {t1} :
        \A d1 \in DOMAIN timetables[t1].schedule :
        \A d2 \in DOMAIN timetables[t2].schedule :
            timetables[t1].schedule[d1].day = timetables[t2].schedule[d2].day =>
                \A k1 \in DOMAIN timetables[t1].schedule[d1].lectures :
                \A k2 \in DOMAIN timetables[t2].schedule[d2].lectures :
                    LET a == timetables[t1].schedule[d1].lectures[k1]
                        b == timetables[t2].schedule[d2].lectures[k2]
                    IN  ~ /\ LecturesOverlap(a, b)
                          /\ (a.lecturer_id = b.lecturer_id \/ a.venue_id = b.venue_id)

\* C9: in every stored timetable, no two lectures of one day's lecture list,
\* adjacent in start order or not, have overlapping time ranges.
NoOverlapWithinDay ==
    \A t \in DOMAIN timetables : \A d \in DOMAIN timetables[t].schedule :
        LET lectures == timetables[t].schedule[d].lectures
        IN  \A k1 \in DOMAIN lectures : \A k2 \in DOMAIN lectures \ {k1} :
                ~LecturesOverlap(lectures[k1], lectures[k2])

\* a stored day holds three lectures, so one pair of it is not adjacent in
\* start order
ThreeLectureDayStored ==
    \E t \in DOMAIN timetables : \E d \in DOMAIN timetables[t].schedule :
        Len(timetables[t].schedule[d].lectures) = 3

HasDuplicateLecture(schedule) ==
    \E d1 \in DOMAIN schedule : \E d2 \in DOMAIN schedule :
        \E k1 \in DOMAIN schedule[d1].lectures : \E k2 \in DOMAIN schedule[d2].lectures :
            /\ <<d1, k1>> # <<d2, k2>>
            /\ lectureKey(schedule[d1].day, schedule[d1].lectures[k1])
                 = lectureKey(schedule[d2].day, schedule[d2].lectures[k2])

\* C10: addTimetable answers a submission holding two lectures of the same day
\* with the same start, end, lecturer and venue with the duplicate rejection,
\* and has issued no conflict query when it does.
DuplicateRejectedBeforeQuery ==
    \A body \in TimetableBodies :
        HasDuplicateLecture(body.schedule) =>
            LET r == addTimetable(timetables, nextTimetable, body)
            IN  /\ r.res.status = 400
                /\ r.res.message = "Duplicate lecture detected in the submission!"
                /\ r.queries = 0

\* C11: no stored timetable holds two lectures with the same day, start, end,
\* lecturer and venue, and addTimetable and updateTimetable answer every
\* submission holding such a pair with 400 and leave the store as it was.
NoDuplicateLecturePersisted ==
    /\ \A t \in DOMAIN timetables : ~HasDuplicateLecture(timetables[t].schedule)
    /\ \A body \in TimetableBodies :
          HasDuplicateLecture(body.schedule) =>
              /\ LET r == addTimetable(timetables, nextTimetable, body)
                 IN  r.res.status = 400 /\ r.timetables = timetables
              /\ \A id \in DOMAIN timetables :
                    LET r == updateTimetable(timetables, id, body)
                    IN  r.res.status = 400 /\ r.timetables = timetables

\* C12: updateTimetable of a stored timetable with its own id, group_id and
\* schedule succeeds and leaves the stored document as it was.
UpdateWithOwnScheduleSucceeds ==
    \A id \in DOMAIN timetables :
        LET r == updateTimetable(timetables, id,
                                 [group_id |-> timetables[id].group_id,
                                  schedule |-> timetables[id].schedule])
        IN  r.res.status = 200 /\ r.timetables = timetables

\* the stored timetable t holds, in an entry for the weekday day, a lecture
\* that overlaps lecture and has its venue or its lecturer
HoldsConflictOn(t, day, lecture) ==
    \E d \in DOMAIN t.schedule :
        /\ t.schedule[d].day = day
        /\ \E k \in DOMAIN t.schedule[d].lectures :
              LET l == t.schedule[d].lectures[k]
              IN  /\ LecturesOverlap(l, lecture)
                  /\ (l.venue_id = lecture.venue_id \/ l.lecturer_id = lecture.lecturer_id)

\* some lecture of the submission meets a lecture of a stored timetable other
\* than own on its weekday
SubmissionConflicts(own, schedule) ==
    \E d \in DOMAIN schedule : \E k \in DOMAIN schedule[d].lectures :
        \E t \in DOMAIN timetables \ {own} :
            HoldsConflictOn(timetables[t], schedule[d].day, schedule[d].lectures[k])

\* C13: addTimetable and updateTimetable answer "Schedule conflict" only if
\* another stored timetable holds, on the weekday of a submitted lecture, a
\* lecture with its venue or lecturer and an overlapping time range.
ConflictOnlyOnSameWeekday ==
    \A body \in TimetableBodies :
        /\ addTimetable(timetables, nextTimetable, body).res.message = "Schedule conflict"
              => SubmissionConflicts(NULL, body.schedule)
        /\ \A id \in TimetableIds :
              updateTimetable(timetables, id, body).res.message = "Schedule conflict"
                  => SubmissionConflicts(id, body.schedule)

-----------------------------------------------------------------------------
(* Properties of the student group store *)

\* C15: every student is a member of at most one student group, and no group
\* lists a student twice.
StudentInOneGroup ==
    /\ \A g1 \in DOMAIN groups : \A g2 \in DOMAIN groups \ {g1} :
          Range(groups[g1].students) \cap Range(groups[g2].students) = {}
    /\ \A g \in DOMAIN groups :
          \A k1 \in DOMAIN groups[g].students : \A k2 \in DOMAIN groups[g].students :
              groups[g].students[k1] = groups[g].students[k2] => k1 = k2

\* several groups are stored, one of them with two students, and an update
\* that would move a student of another group into a group is refused
GroupsShareNoStudentSeen ==
    /\ Cardinality(DOMAIN groups) >= 2
    /\ \E g \in DOMAIN groups : Len(groups[g].students) = 2
    /\ \E g \in DOMAIN groups, call \in GroupCalls :
          /\ call[1] = g
          /\ updateStudentGroup(groups, g, call[2]).res.message
               = "One or more students are already assigned to another group"

-----------------------------------------------------------------------------
(* Properties of all three stores *)

Rejected(res) == res.status \in {400, 404}

TimetableRejectionsWriteNothing ==
    \A body \in TimetableBodies \cup MalformedTimetables :
        /\ LET r == addTimetable(timetables, nextTimetable, body)
           IN  IF Rejected(r.res)
               THEN r.timetables = timetables /\ r.created = 0
               ELSE \A t \in DOMAIN r.timetables \ DOMAIN timetables :
                       r.timetables[t].schedule = sanitizeSchedule(body.schedule)
        /\ \A id \in TimetableIds \cup {BadObjectId} :
              LET r == updateTimetable(timetables, id, body)
              IN  IF Rejected(r.res)
                  THEN r.timetables = timetables
                  ELSE r.timetables[id].schedule = sanitizeSchedule(body.schedule)

PresentationRejectionsWriteNothing ==
    /\ \A body \in AddBodies :
          LET r == addPresentation(presentations, nextPresentation, body)
          IN  Rejected(r.res) => r.presentations = presentations /\ r.created = 0
    /\ \A call \in UpdateCalls :
          LET r == updatePresentation(presentations, call[1], call[2])
          IN  Rejected(r.res) => r.presentations = presentations

GroupRejectionsWriteNothing ==
    \A body \in GroupBodies \cup OtherGroupBodies :
        /\ LET r == addStudentGroup(groups, nextGroup, body)
           IN  Rejected(r.res) => r.groups = groups /\ r.created = 0
        /\ \A id \in GroupIds \cup {BadObjectId} :
              LET r == updateStudentGroup(groups, id, body)
              IN  Rejected(r.res) => r.groups = groups

\* C14: a call of addTimetable, updateTimetable, addPresentation,
\* updatePresentation, addStudentGroup or updateStudentGroup that answers 400
\* or 404 leaves the stores as they were, and an accepted timetable submission
\* is stored with its whole schedule.
RejectionsWriteNothing ==
    /\ TimetableRejectionsWriteNothing
    /\ PresentationRejectionsWriteNothing
    /\ GroupRejectionsWriteNothing

\* in a store with a timetable a submission is refused for a schedule
\* conflict at its second day, after its first day has passed every check
LateConflictSeen ==
    \E body \in TimetableBodies :
        /\ Len(body.schedule) = 2
        /\ LET r == addTimetable(timetables, nextTimetable, body)
           IN  r.res.message = "Schedule conflict" /\ r.queries = 2

-----------------------------------------------------------------------------
(* Properties of the slot suggestion engine *)

\* the requests that name students of the department SE only
EngineBodies == {b \in SuggestBodies : b.studentIds # {} /\ b.studentIds \subseteq {"s1", "s2"}}

EngineExaminers == [k \in DOMAIN ExaminerDocs |-> ExaminerDocs[k]._id]
EngineLecturers == [k \in DOMAIN ExaminerDocs |-> ExaminerDocs[k].examiner_id]

\* none of the students has a presentation on date that overlaps [s, e)
StudentsFree(date, s, e, studentIds) ==
    ~ \E id \in DOMAIN presentations :
        /\ presentations[id].date = date
        /\ Overlap(presentations[id].startTime, presentations[id].endTime, s, e)
        /\ presentations[id].students \cap studentIds # {}

\* the department examiners that have a presentation on date, in order
PresentingOn(date) ==
    SelectSeq2(EngineExaminers,
               {ex \in Range(EngineExaminers) :
                   \E id \in DOMAIN presentations :
                       presentations[id].date = date /\ ex \in presentations[id].examiners},
               1)

\* the department examiners that have no presentation on date, in order
NotPresentingOn(date) ==
    SelectSeq2(EngineExaminers, Range(EngineExaminers) \ Range(PresentingOn(date)), 1)

\* the venues that have no presentation on date, in order
VenuesFreeOn(date) ==
    SelectSeq2(allVenues,
               {v \in Range(allVenues) :
                   ~ \E id \in DOMAIN presentations :
                       presentations[id].date = date /\ presentations[id].venue = v},
               1)

CombinationFormable(date, numExaminers) ==
    \/ Len(PresentingOn(date)) >= numExaminers
    \/ Len(NotPresentingOn(date)) >= numExaminers /\ Len(VenuesFreeOn(date)) > 0

FeasibleSlot(date, k, body) ==
    /\ StudentsFree(date, k, k + body.duration, body.studentIds)
    /\ CombinationFormable(date, body.numExaminers)

\* C17: smartSuggestSlot returns a suggestion whenever one of the 14 candidate
\* dates has a ladder start at which the students are free and an examiner
\* and venue combination can be formed, and answers that no slot is available
\* only if no candidate date has one.
SuggestsWheneverFeasible ==
    \A body \in EngineBodies :
        LET r == smartSuggestSlot(presentations, timetables, body)
        IN  (\E i \in 1..14 : \E k \in DOMAIN allTimeSlots :
                 FeasibleSlot(possibleDates(0)[i], k, body))
            <=> r.status = 200

ChosenDate == pickBestDate(timetables, possibleDates(0), EngineLecturers, 1, NULL, 0)

\* C18: on the chosen date smartSuggestSlot returns the earliest ladder start
\* at which the students are free and a combination can be formed, ending
\* duration later, with numExaminers distinct examiners and a venue; with no
\* presentation stored that is 08:00.
EarliestSlotSuggested ==
    \A body \in EngineBodies :
        LET r == smartSuggestSlot(presentations, timetables, body)
            feasible == {k \in DOMAIN allTimeSlots : FeasibleSlot(ChosenDate, k, body)}
        IN  /\ feasible # {} =>
                  /\ r.status = 200
                  /\ r.date = ChosenDate
                  /\ r.startTime \in feasible
                  /\ \A k \in feasible : r.startTime <= k
                  /\ r.endTime = r.startTime + body.duration
                  /\ Len(r.examiners) = body.numExaminers
                  /\ Cardinality(Range(r.examiners)) = body.numExaminers
                  /\ r.venue # NULL
            /\ presentations = << >> =>
                  r.status = 200 /\ r.startTime = 1 /\ r.endTime = 1 + body.duration

\* the load score of the engines for a candidate date
LoadScore(date, lecturerIds) == totalLectures(timetables, date, lecturerIds, 1)

\* date is the first of dates with the least load score
EarliestMinimum(date, dates, lecturerIds) ==
    \E i \in DOMAIN dates :
        /\ dates[i] = date
        /\ \A j \in DOMAIN dates :
              /\ LoadScore(dates[i], lecturerIds) <= LoadScore(dates[j], lecturerIds)
              /\ j < i => LoadScore(dates[i], lecturerIds) < LoadScore(dates[j], lecturerIds)

\* C19: the date smartSuggestSlot suggests is the first of today..today+13
\* with the least load score, and the date smartSuggestSlotForReschedule
\* chooses is the first of tomorrow..today+14 with the least load score.
BestDateIsEarliestMinimum ==
    /\ \A body \in EngineBodies :
          LET r == smartSuggestSlot(presentations, timetables, body)
          IN  r.status = 200 => EarliestMinimum(r.date, possibleDates(0), EngineLecturers)
    /\ \A id \in DOMAIN presentations :
          EarliestMinimum(rescheduleBestDate(presentations, timetables, id),
                          possibleDates(1),
                          SelectSeq2(EngineExaminers, presentations[id].examiners, 1))

\* a date is suggested while the examiners of the department have lectures
LoadedDateSuggested ==
    \E body \in EngineBodies :
        LET r == smartSuggestSlot(presentations, timetables, body)
        IN  r.status = 200 /\ LoadScore(r.date, EngineLecturers) > 0

\* C20: when at least numExaminers department examiners present on the
\* chosen date, the suggestion names the first numExaminers of them and a
\* venue at which one of them presents that day; otherwise it names the first
\* numExaminers examiners that do not present that day and the first venue
\* without a presentation that day.
SelectionFollowsPolicy ==
    \A body \in EngineBodies :
        LET r == smartSuggestSlot(presentations, timetables, body)
        IN  r.status = 200 =>
                IF Len(PresentingOn(r.date)) >= body.numExaminers
                THEN /\ r.examiners = SubSeq(PresentingOn(r.date), 1, body.numExaminers)
                     /\ \E id \in DOMAIN presentations :
                           /\ presentations[id].date = r.date
                           /\ presentations[id].venue = r.venue
                           /\ presentations[id].examiners \cap Range(r.examiners) # {}
                ELSE /\ r.examiners = SubSeq(NotPresentingOn(r.date), 1, body.numExaminers)
                     /\ Len(VenuesFreeOn(r.date)) > 0
                     /\ r.venue = VenuesFreeOn(r.date)[1]

-----------------------------------------------------------------------------
(* Properties of concurrent requests *)

\* the documents the calls i and j have written double-book a shared resource
DoubleBookedBy(i, j) ==
    /\ calls[i].pc = "done" /\ calls[j].pc = "done"
    /\ calls[i].target \in DOMAIN presentations
    /\ calls[j].target \in DOMAIN presentations
    /\ calls[i].target # calls[j].target
    /\ LET a == presentations[calls[i].target]
           b == presentations[calls[j].target]
       IN  SameSlot(a, b.date, b.startTime, b.endTime) /\ SharesResource(a, b)

\* C21: known race.  A call for which isTimeSlotAvailable has answered true
\* is never refused afterwards and the document it writes stays in the store,
\* whatever the other calls have persisted in between: no step detects or
\* undoes a double booking, so two interleaved calls that both pass the
\* checker before either persists both succeed.
PassedCallsSucceed ==
    \A i \in Callers :
        calls[i].passed =>
            /\ calls[i].status \in {0, 200, 201}
            /\ calls[i].pc = "done" =>
                   /\ calls[i].status \in {200, 201}
                   /\ calls[i].target \in DOMAIN presentations

\* two addPresentation calls have both answered 201 and their presentations
\* double-book a shared resource
RaceDoubleBooks ==
    \E i, j \in Callers :
        /\ calls[i].op = "addPresentation" /\ calls[i].status = 201
        /\ calls[j].op = "addPresentation" /\ calls[j].status = 201
        /\ DoubleBookedBy(i, j)

\* an addPresentation call and an approval have both succeeded and the
\* presentation added and the presentation moved double-book a shared resource
ApprovalRaceDoubleBooks ==
    \E i, j \in Callers :
        /\ calls[i].op = "addPresentation" /\ calls[i].status = 201
        /\ calls[j].op = "approveOrRejectReschedule" /\ calls[j].passed
        /\ calls[j].status = 200
        /\ DoubleBookedBy(i, j)

-----------------------------------------------------------------------------
(* Properties of the notifications *)

\* addPresentation and updatePresentation write and answer the same whether
\* or not their emails are delivered
GuardedNotificationsIsolated ==
    /\ \A body \in WorkflowBookings, mail \in MailOutcomes :
           addPresentationNotifying(presentations, nextPresentation, body, mail)
               = addPresentationNotifying(presentations, nextPresentation, body, "sent")
    /\ \A id \in PresentationIds, body \in WorkflowBookings, mail \in MailOutcomes :
           updatePresentationNotifying(presentations, id, body, mail)
               = updatePresentationNotifying(presentations, id, body, "sent")

\* approveOrRejectReschedule writes and answers the same whether or not its
\* emails are delivered
ApprovalNotificationsIsolated ==
    \A requestId \in RequestIds, action \in Actions, mail \in MailOutcomes :
        LET r == approveOrRejectRescheduleNotifying(presentations, requests,
                                                    requestId, action, mail)
            ok == approveOrRejectRescheduleNotifying(presentations, requests,
                                                     requestId, action, "sent")
        IN  /\ r.presentations = ok.presentations
            /\ r.requests = ok.requests
            /\ r.res.status = ok.res.status

\* C22: for addPresentation, updatePresentation and approveOrRejectReschedule
\* (approve and reject), a failing sendEmail leaves the stored state and the
\* response status as they are when every email succeeds.
NotificationFailuresIsolated ==
    GuardedNotificationsIsolated /\ ApprovalNotificationsIsolated

\* approveOrRejectReschedule writes the same whether or not its emails are
\* delivered
ApprovalWritesIsolated ==
    \A requestId \in RequestIds, action \in Actions, mail \in MailOutcomes :
        LET r == approveOrRejectRescheduleNotifying(presentations, requests,
                                                    requestId, action, mail)
            ok == approveOrRejectRescheduleNotifying(presentations, requests,
                                                     requestId, action, "sent")
        IN  r.presentations = ok.presentations /\ r.requests = ok.requests

-----------------------------------------------------------------------------
(* Properties of the group identifiers *)

\* C23: the first group created gets GR1001, and the group_id of every newly
\* created group has a number strictly greater than that of every group_id
\* generated before it, so no group_id is issued twice.
GroupIdsMonotonic ==
    [][\A g \in DOMAIN groups' \ DOMAIN groups :
           /\ issued = {} => groups'[g].group_id = FirstGroupNumber
           /\ \A n \in issued : groups'[g].group_id > n]_vars

\* as long as no group is deleted the numbers do grow: the group_id of a new
\* group is greater than that of every stored group
GroupIdAboveStored ==
    [][\A g \in DOMAIN groups' \ DOMAIN groups :
           \A h \in DOMAIN groups : groups'[g].group_id > groups[h].group_id]_vars

-----------------------------------------------------------------------------
(* Properties of the conflict responses *)

\* the dimensions in which the candidate b collides with a stored presentation
\* other than the presentation self
ClashingDimensions(b, self) ==
    {dim \in {"venue", "examiner", "student"} :
        \E id \in DOMAIN presentations \ {self} :
            /\ SameSlot(presentations[id], b.date, b.startTime, b.endTime)
            /\ CASE dim = "venue" -> presentations[id].venue = b.venue
                 [] dim = "examiner" -> presentations[id].examiners \cap b.examiners # {}
                 [] dim = "student" -> presentations[id].students \cap b.students # {}}

\* the 400 responses of addPresentation and updatePresentation to candidates
\* that collide in exactly the dimension dim
ConflictResponses(dim) ==
    {addPresentation(presentations, nextPresentation, b).res :
        b \in {c \in WorkflowBookings : ClashingDimensions(c, NULL) = {dim}}}
    \cup UNION
        {{updatePresentation(presentations, id, b).res :
             b \in {c \in WorkflowBookings : ClashingDimensions(c, id) = {dim}}}
         : id \in DOMAIN presentations}

\* C24: the 400 of addPresentation and updatePresentation to a double booking
\* names the dimension that conflicts: the response to a candidate colliding
\* only on the venue differs from the response to one colliding only on an
\* examiner or only on a student.
ConflictNamesResource ==
    \A d1, d2 \in {"venue", "examiner", "student"} :
        d1 # d2 =>
            \A r1 \in ConflictResponses(d1), r2 \in ConflictResponses(d2) :
                (r1.status = 400 /\ r2.status = 400 /\ r1.op = r2.op)
                    => r1.message # r2.message

-----------------------------------------------------------------------------
(* Properties of the availability checker *)

\* the venue argument of isTimeSlotAvailable: a venue or none
VenueArgs == Venues \cup {NULL}

\* a stored presentation overlaps the candidate range on its date and shares
\* a supplied examiner, the supplied venue or a supplied student
TrueConflict(date, startTime, endTime, examiners, venue, students) ==
    \E id \in DOMAIN presentations :
        /\ SameSlot(presentations[id], date, startTime, endTime)
        /\ \/ presentations[id].examiners \cap examiners # {}
           \/ venue # NULL /\ presentations[id].venue = venue
           \/ presentations[id].students \cap students # {}

\* C25: isTimeSlotAvailable has no false rejections: on every store reachable
\* through addPresentation and updatePresentation it returns false only if a
\* stored presentation on the date overlaps the candidate range and shares a
\* supplied examiner, the supplied venue or a supplied student; without a
\* venue argument a venue clash alone never makes it return false.
NoFalseRejection ==
    \A date \in Dates, startTime \in Times, endTime \in Times,
       examiners \in SUBSET Examiners, venue \in VenueArgs,
       students \in SUBSET Students :
        ~isTimeSlotAvailable(presentations, date, startTime, endTime,
                             examiners, venue, students)
            => TrueConflict(date, startTime, endTime, examiners, venue, students)

\* the same for candidates of start < end on stores whose ranges have
\* start < end
NoFalseRejectionOfProperRanges ==
    (\A id \in DOMAIN presentations :
         presentations[id].startTime < presentations[id].endTime)
    => \A date \in Dates, startTime \in Times, endTime \in Times,
          examiners \in SUBSET Examiners, venue \in VenueArgs,
          students \in SUBSET Students :
           (startTime < endTime
            /\ ~isTimeSlotAvailable(presentations, date, startTime, endTime,
                                    examiners, venue, students))
               => TrueConflict(date, startTime, endTime, examiners, venue, students)

-----------------------------------------------------------------------------
(* Properties of the free times of a lecturer *)

\* the lectures of the lecturer stored on the weekday day
LecturesOn(day, lecturerId) ==
    UNION {UNION {{timetables[t].schedule[d].lectures[k]
                   : k \in {j \in DOMAIN timetables[t].schedule[d].lectures :
                              timetables[t].schedule[d].lectures[j].lecturer_id
                                = lecturerId}}
                  : d \in {e \in DOMAIN timetables[t].schedule :
                             timetables[t].schedule[e].day = day}}
           : t \in DOMAIN timetables}

\* C26: getFreeTimesForLecturer never reports a busy hour as free: for every
\* weekday, each hourly slot of the returned freeTimes overlaps none of the
\* lectures of the lecturer stored on that weekday, also when a lecture lies
\* strictly inside the slot or spans more than one slot.
NoBusyHourReportedFree ==
    \A lecturerId \in Lecturers :
        LET r == getFreeTimesForLecturer(timetables, lecturerId)
        IN  r.res.status = 200 =>
                \A day \in DAYS : \A slot \in r.freeTimes[day] :
                    \A l \in LecturesOn(day, lecturerId) :
                        ~Overlap(slot.startTime, slot.endTime, l.start_time, l.end_time)

\* the same for the lectures that hold the start or the end of an hourly slot
NoBusyHourReportedFreeAtSlotEnds ==
    \A lecturerId \in Lecturers :
        LET r == getFreeTimesForLecturer(timetables, lecturerId)
        IN  r.res.status = 200 =>
                \A day \in DAYS : \A slot \in r.freeTimes[day] :
                    \A l \in LecturesOn(day, lecturerId) :
                        (l.start_time <= slot.startTime \/ l.end_time >= slot.endTime)
                            => ~Overlap(slot.startTime, slot.endTime,
                                        l.start_time, l.end_time)

====
